---- MODULE Spec2Model ----
(***************************************************************************)
(* Verification model of the ZigBee-Manager automation engine              *)
(* (src/modules/automation.py): rule evaluation with cooldown and traced   *)
(* dispatch, the trace ring, and rule CRUD with persistence; of the        *)
(* fast-path frame decoder (src/handlers/fast_path.py); and of the IAS     *)
(* Zone handler (src/handlers/security.py).                                *)
(*                                                                         *)
(* Conventions.                                                            *)
(*  - A Python value is a record [t, n, s]: t is its type ("bool", "int",  *)
(*    "str"), n the number (0/1 for a bool), s the text of a string.       *)
(*  - An opaque rule id "auto_<8 hex digits>" is a positive integer; the   *)
(*    id "-" of an entry trace is NoRule.                                  *)
(*  - time.time() is the integer variable now (seconds).                   *)
(*  - evaluate() holds no await, so one call is one atomic step of the     *)
(*    event loop; a dispatch task advances between its awaits.             *)
(***************************************************************************)
EXTENDS Integers, Sequences, FiniteSets, TLC

VARIABLES
    rules,          \* AutomationEngine.rules: sequence of rule records
    source_index,   \* AutomationEngine._source_index: source_ieee -> <<rule ids>>
    cooldowns,      \* AutomationEngine._cooldowns: rule id -> last fired
    trace_log,      \* AutomationEngine._trace_log
    stats,          \* AutomationEngine._stats
    now,            \* time.time()
    devices,        \* keys of the device registry returned by _get_devices()
    device_state,   \* ieee -> the state map of that registry entry
    tasks,          \* dispatch tasks made by asyncio.create_task, in creation order
    file,           \* contents of ./data/automations.json
    next_id,        \* number of rule ids drawn from uuid4 so far
    last,           \* the last CRUD call and its response, or the last evaluate() call
    appended,       \* every trace ever handed to _add_trace, in order
    fast_stats,     \* FastPathProcessor._stats
    last_seen,      \* ieee -> Device.last_seen (unix milliseconds)
    cache_dirty,    \* ZigbeeService._cache_dirty
    handlers        \* ieee -> the fields of the device's cluster handler objects

vars == <<rules, source_index, cooldowns, trace_log, stats, now, devices,
          device_state, tasks, file, next_id, last, appended,
          fast_stats, last_seen, cache_dirty, handlers>>

\* the variables of the device service, which the automation engine never writes
service_vars == <<fast_stats, last_seen, cache_dirty, handlers>>

----------------------------------------------------------------------------
(* Program constants *)

MAX_RULES_PER_DEVICE == 10
MAX_CONDITIONS_PER_RULE == 5
DEFAULT_COOLDOWN == 5
max_trace_entries == 100

OPERATORS == {"eq", "neq", "gt", "lt", "gte", "lte"}

VALID_COMMANDS ==
    {"on", "off", "toggle", "brightness", "color_temp", "open", "close", "stop", "position"}

NoRule == 0

----------------------------------------------------------------------------
(* Python values *)

B(b) == [t |-> "bool", n |-> IF b THEN 1 ELSE 0, s |-> ""]
I(k) == [t |-> "int", n |-> k, s |-> ""]
\* a string that spells no number, and the string that spells the decimal number k
S(x) == [t |-> "str", n |-> 0, s |-> x]
NumStr(k) == [t |-> "str", n |-> k, s |-> "#"]

\* str.lower() on the strings the model uses
Lower(x) ==
    CASE x = "True"  -> "true"
      [] x = "TRUE"  -> "true"
      [] x = "False" -> "false"
      [] x = "FALSE" -> "false"
      [] OTHER       -> x

\* int(value) / float(value) on a string: the number it spells, or ValueError
NumberOfStr(v) == [ok |-> v.s = "#", n |-> v.n]

\* _normalise_value
NormaliseValue(v) ==
    IF v.t = "str"
    THEN IF Lower(v.s) = "true" THEN B(TRUE)
         ELSE IF Lower(v.s) = "false" THEN B(FALSE)
         ELSE IF NumberOfStr(v).ok THEN I(NumberOfStr(v).n)
         ELSE v
    ELSE v

\* a == b  (True == 1 and False == 0 in Python; a string equals only the same string)
PyEq(a, b) ==
    IF a.t = "str" \/ b.t = "str"
    THEN a.t = b.t /\ a.s = b.s /\ a.n = b.n
    ELSE a.n = b.n

\* float(x): bools and ints convert, a string converts when it spells a number
FloatOf(v) ==
    IF v.t = "str" THEN NumberOfStr(v) ELSE [ok |-> TRUE, n |-> v.n]

\* str(x)
StrOf(v) ==
    CASE v.t = "str"  -> v
      [] v.t = "bool" -> S(IF v.n = 1 THEN "True" ELSE "False")
      [] OTHER        -> NumStr(v.n)

\* OPERATORS[op](a, b) for gt/lt/gte/lte: "ERR" is the TypeError/ValueError of float()
Ordering(op, a, b) ==
    LET fa == FloatOf(a)
        fb == FloatOf(b)
    IN  IF ~fa.ok \/ ~fb.ok THEN "ERR"
        ELSE IF CASE op = "gt"  -> fa.n > fb.n
                  [] op = "lt"  -> fa.n < fb.n
                  [] op = "gte" -> fa.n >= fb.n
                  [] OTHER      -> fa.n <= fb.n
             THEN "T" ELSE "F"

ApplyOperator(op, a, b) ==
    CASE op = "eq"  -> IF PyEq(a, b) THEN "T" ELSE "F"
      [] op = "neq" -> IF PyEq(a, b) THEN "F" ELSE "T"
      [] OTHER      -> Ordering(op, a, b)

\* _evaluate_condition: "T", "F", or "ERR" when the exception escapes
EvaluateCondition(actual_value, operator, threshold_value) ==
    IF operator \notin OPERATORS THEN "F"
    ELSE LET actual == NormaliseValue(actual_value)
             threshold == NormaliseValue(threshold_value)
             first == ApplyOperator(operator, actual, threshold)
         IN  IF first # "ERR" THEN first
             ELSE ApplyOperator(operator, StrOf(actual), StrOf(threshold))

----------------------------------------------------------------------------
(* The device registry: what _get_devices() can return *)

SensorA == "aa01"       \* a sensor that rules watch
SensorB == "aa02"       \* a sensor without rules
Light   == "bb01"       \* a light
Plug    == "bb02"       \* marked unavailable, without a capabilities object
Stub    == "bb03"       \* a registry entry without send_command

AllDevices == {SensorA, SensorB, Light, Plug, Stub}

\* Mutant: every registry entry counts as having send_command
DeviceAllSend(ieee) ==
    [send_command |-> TRUE,
     available    |-> ieee # Plug,
     capabilities |-> IF ieee = Plug THEN "none" ELSE "object",
     caps         |-> IF ieee = Light THEN {"light", "on_off", "level_control"}
                      ELSE IF ieee = Stub THEN {"cover"} ELSE {}]

\* The attributes of a registry entry that evaluate() reads
Device(ieee) ==
    [send_command |-> ieee # Stub,
     available    |-> ieee # Plug,
     capabilities |-> IF ieee = Plug THEN "none" ELSE "object",
     caps         |-> IF ieee = Light THEN {"light", "on_off", "level_control"}
                      ELSE IF ieee = Stub THEN {"cover"} ELSE {}]

\* Mutant: a capability check that finds nothing to warn about
CheckTargetCapabilityNever(target_device, command) == FALSE

\* _check_target_capability: TRUE when it returns a warning string
CheckTargetCapability(target_device, command) ==
    LET has_cap(c) == c \in target_device.caps
    IN  IF target_device.capabilities = "none" THEN TRUE
        ELSE CASE command \in {"on", "off", "toggle"} ->
                      ~(has_cap("on_off") \/ has_cap("light") \/ has_cap("switch"))
               [] command = "brightness" ->
                      ~(has_cap("level_control") \/ has_cap("light"))
               [] command = "color_temp" ->
                      ~has_cap("color_control") /\ ~has_cap("light")
               [] command \in {"open", "close", "stop", "position"} ->
                      ~(has_cap("cover") \/ has_cap("window_covering"))
               [] OTHER -> FALSE

----------------------------------------------------------------------------
(* Index, lookup and the trace ring *)

\* dict.get(key, default) on a function
Get(d, k, default) == IF k \in DOMAIN d THEN d[k] ELSE default

RECURSIVE IndexFrom(_, _, _)
IndexFrom(rs, i, idx) ==
    IF i > Len(rs) THEN idx
    ELSE LET rule == rs[i]
             src == IF "source_ieee" \in DOMAIN rule THEN rule.source_ieee ELSE ""
         IN  IF src # ""
             THEN IndexFrom(rs, i + 1, (src :> Append(Get(idx, src, <<>>), rule.id)) @@ idx)
             ELSE IndexFrom(rs, i + 1, idx)

\* _rebuild_index
RebuildIndex(rs) == IndexFrom(rs, 1, <<>>)

\* _find_rule: the position of the first rule with this id, 0 for None
FindRule(rs, rule_id) ==
    IF \E i \in 1..Len(rs) : rs[i].id = rule_id
    THEN CHOOSE i \in 1..Len(rs) :
            rs[i].id = rule_id /\ \A j \in 1..(i - 1) : rs[j].id # rule_id
    ELSE 0

\* Mutant: the trim keeps the oldest entries
TrimTraceOldest(log) ==
    IF Len(log) > max_trace_entries THEN SubSeq(log, 1, max_trace_entries) ELSE log

\* the trim of _add_trace
TrimTrace(log) ==
    IF Len(log) > max_trace_entries
    THEN SubSeq(log, Len(log) - max_trace_entries + 1, Len(log))
    ELSE log

\* _add_trace: stamp the entry, append it, trim the ring
AddTrace(log, trace, t) ==
    TrimTrace(Append(log, ("timestamp" :> t) @@ trace))

Trace(rule_id, level, phase, result, conditions) ==
    [rule_id |-> rule_id, level |-> level, phase |-> phase, result |-> result,
     conditions |-> conditions]

\* _get_conditions
GetConditions(rule) ==
    IF "conditions" \in DOMAIN rule THEN rule.conditions
    ELSE IF "threshold" \in DOMAIN rule THEN <<rule.threshold>>
    ELSE <<>>

----------------------------------------------------------------------------
(* evaluate() *)

\* Mutant: traces at level DEBUG are dropped
EmitAboveDebug(acc, trace, t) ==
    IF trace.level = "DEBUG" THEN acc
    ELSE [acc EXCEPT !.trace_log = AddTrace(@, trace, t),
                     !.appended = Append(@, ("timestamp" :> t) @@ trace)]

\* What one call of a handler changes: the ring, the traces handed to
\* _add_trace so far, the cooldown table, the tasks created and the statistics.
Emit(acc, trace, t) ==
    [acc EXCEPT !.trace_log = AddTrace(@, trace, t),
                !.appended = Append(@, ("timestamp" :> t) @@ trace)]

CondResult(i, cond, result, value_source) ==
    [index |-> i, attribute |-> cond.attribute, operator |-> cond.operator,
     result |-> result, value_source |-> value_source]

\* Mutant: the cached state is preferred over the delta
ValueSourceCachedFirst(attr, changed_data, full_state) ==
    IF attr \in DOMAIN full_state THEN "full_state"
    ELSE IF attr \in DOMAIN changed_data THEN "changed_data"
    ELSE "missing"

\* Which mapping a condition's value comes from (automation.py, 516-534)
ValueSource(attr, changed_data, full_state) ==
    IF attr \in DOMAIN changed_data THEN "changed_data"
    ELSE IF attr \in DOMAIN full_state THEN "full_state"
    ELSE "missing"

\* Mutant: the loop goes on after a failed condition (the break is missing)
RECURSIVE ConditionLoopNoBreak(_, _, _, _, _)
ConditionLoopNoBreak(conditions, i, changed_data, full_state, condition_results) ==
    IF i > Len(conditions)
    THEN [all_matched |-> \A j \in 1..Len(condition_results) :
                              condition_results[j].result = "PASS",
          condition_results |-> condition_results]
    ELSE LET cond == conditions[i]
             value_source == ValueSource(cond.attribute, changed_data, full_state)
             matched ==
                 IF value_source = "missing" THEN "F"
                 ELSE EvaluateCondition(
                        IF value_source = "changed_data" THEN changed_data[cond.attribute]
                        ELSE full_state[cond.attribute], cond.operator, cond.value)
             result == CASE matched = "T" -> "PASS" [] matched = "F" -> "FAIL" [] OTHER -> "ERROR"
         IN  ConditionLoopNoBreak(conditions, i + 1, changed_data, full_state,
                Append(condition_results, CondResult(i, cond, result, value_source)))

\* The condition loop (automation.py, 506-576): all_matched and condition_results
RECURSIVE ConditionLoop(_, _, _, _, _)
ConditionLoop(conditions, i, changed_data, full_state, condition_results) ==
    IF i > Len(conditions)
    THEN [all_matched |-> TRUE, condition_results |-> condition_results]
    ELSE LET cond == conditions[i]
             attr == cond.attribute
             value_source == ValueSource(attr, changed_data, full_state)
         IN  IF value_source = "missing"
             THEN [all_matched |-> FALSE,
                   condition_results |->
                       Append(condition_results, CondResult(i, cond, "FAIL", "missing"))]
             ELSE LET current_value == IF value_source = "changed_data"
                                       THEN changed_data[attr] ELSE full_state[attr]
                      matched == EvaluateCondition(current_value, cond.operator, cond.value)
                  IN  IF matched = "ERR"
                      THEN [all_matched |-> FALSE,
                            condition_results |->
                                Append(condition_results, CondResult(i, cond, "ERROR", value_source))]
                      ELSE IF matched = "F"
                      THEN [all_matched |-> FALSE,
                            condition_results |->
                                Append(condition_results, CondResult(i, cond, "FAIL", value_source))]
                      ELSE ConditionLoop(conditions, i + 1, changed_data, full_state,
                                Append(condition_results, CondResult(i, cond, "PASS", value_source)))

\* Mutant: every watched attribute counts as changed
TriggeredAttrsAll(conditions, changed_data) ==
    {conditions[i].attribute : i \in 1..Len(conditions)}

\* The watched attributes that changed (automation.py, 489-491)
TriggeredAttrs(conditions, changed_data) ==
    LET watched_attrs == {conditions[i].attribute : i \in 1..Len(conditions)}
        changed_attrs == DOMAIN changed_data
    IN  watched_attrs \cap changed_attrs

\* Mutant: the cooldown measured from the default 0 instead of the last fire
InCooldownFromZero(rule, cds, rule_id, t) ==
    LET cooldown == IF "cooldown" \in DOMAIN rule THEN rule.cooldown ELSE DEFAULT_COOLDOWN
    IN  (t - 0) < cooldown

\* The cooldown test (automation.py, 599-603)
InCooldown(rule, cds, rule_id, t) ==
    LET cooldown == IF "cooldown" \in DOMAIN rule THEN rule.cooldown ELSE DEFAULT_COOLDOWN
        last_fired == Get(cds, rule_id, 0)
    IN  (t - last_fired) < cooldown

\* Mutant: last_fired is not recorded when the rule fires
MarkFiredNever(cds, rule_id, t) == cds

\* The cooldown table after a fire (automation.py, 699)
MarkFired(cds, rule_id, t) == (rule_id :> t) @@ cds

\* Mutant: the dispatch is called, not scheduled
NewTaskCalled(rule, t) ==
    [rule_id |-> rule.id, target_ieee |-> rule.target_ieee,
     command |-> rule.action.command, pc |-> "send_command", created |-> t]

\* asyncio.create_task(self._execute_action_traced(...)) (automation.py, 702-704)
NewTask(rule, t) ==
    [rule_id |-> rule.id, target_ieee |-> rule.target_ieee,
     command |-> rule.action.command, pc |-> "created", created |-> t]

\* The body of the per-rule loop (automation.py, 451-704)
EvaluateRule(acc, rs, rule_id, source_ieee, changed_data, full_state, devs, t) ==
    LET k == FindRule(rs, rule_id)
    IN
    IF k = 0
    THEN Emit(acc, Trace(rule_id, "WARNING", "lookup", "RULE_MISSING", <<>>), t)
    ELSE
    LET rule == rs[k]
        conditions == GetConditions(rule)
        triggered_attrs == TriggeredAttrs(conditions, changed_data)
        loop == ConditionLoop(conditions, 1, changed_data, full_state, <<>>)
        results == loop.condition_results
        target_ieee == rule.target_ieee
    IN
    IF ~(IF "enabled" \in DOMAIN rule THEN rule.enabled ELSE TRUE)
    THEN Emit(acc, Trace(rule_id, "DEBUG", "enabled", "DISABLED", <<>>), t)
    ELSE IF conditions = <<>>
    THEN Emit(acc, Trace(rule_id, "WARNING", "conditions", "NO_CONDITIONS", <<>>), t)
    ELSE IF triggered_attrs = {}
    THEN Emit(acc, Trace(rule_id, "DEBUG", "relevance", "NOT_RELEVANT", <<>>), t)
    ELSE IF ~loop.all_matched
    THEN Emit(acc, Trace(rule_id, "INFO", "evaluate", "NO_MATCH", results), t)
    ELSE
    LET acc1 == [acc EXCEPT !.stats.matches = @ + 1]
    IN
    IF InCooldown(rule, acc1.cooldowns, rule_id, t)
    THEN Emit(acc1, Trace(rule_id, "INFO", "cooldown", "BLOCKED", results), t)
    ELSE IF target_ieee \notin devs
    THEN Emit(acc1, Trace(rule_id, "ERROR", "target", "TARGET_MISSING", results), t)
    ELSE IF ~Device(target_ieee).send_command
    THEN Emit(acc1, Trace(rule_id, "ERROR", "target", "NO_SEND_COMMAND", results), t)
    ELSE
    LET acc2 == IF ~Device(target_ieee).available
                THEN Emit(acc1, Trace(rule_id, "WARNING", "target", "TARGET_UNAVAILABLE", results), t)
                ELSE acc1
        acc3 == IF CheckTargetCapability(Device(target_ieee), rule.action.command)
                THEN Emit(acc2, Trace(rule_id, "WARNING", "capability", "CAPABILITY_WARN", results), t)
                ELSE acc2
        acc4 == Emit(acc3, Trace(rule_id, "INFO", "execute", "FIRING", results), t)
    IN  [acc4 EXCEPT !.cooldowns = MarkFired(@, rule_id, t),
                     !.tasks = Append(@, NewTask(rule, t))]

RECURSIVE EvaluateLoop(_, _, _, _, _, _, _, _, _)
EvaluateLoop(acc, rs, rule_ids, i, source_ieee, changed_data, full_state, devs, t) ==
    IF i > Len(rule_ids) THEN acc
    ELSE EvaluateLoop(
            EvaluateRule(acc, rs, rule_ids[i], source_ieee, changed_data, full_state, devs, t),
            rs, rule_ids, i + 1, source_ieee, changed_data, full_state, devs, t)

\* evaluate(source_ieee, changed_data) from the engine state acc at time t
EvaluateCall(acc, rs, index, source_ieee, changed_data, states, devs, t) ==
    LET rule_ids == Get(index, source_ieee, <<>>)
        acc1 == [acc EXCEPT !.stats.evaluations = @ + 1]
    IN  IF rule_ids = <<>> THEN acc
        ELSE IF source_ieee \notin devs
        THEN Emit(acc1, ("changed_data" :> changed_data)
                            @@ Trace(NoRule, "ERROR", "lookup", "SOURCE_MISSING", <<>>), t)
        ELSE EvaluateLoop(
                Emit(acc1, ("changed_data" :> changed_data)
                            @@ Trace(NoRule, "DEBUG", "entry", "EVALUATING", <<>>), t),
                rs, rule_ids, 1, source_ieee, changed_data, states[source_ieee], devs, t)

Engine ==
    [trace_log |-> trace_log, appended |-> appended, cooldowns |-> cooldowns,
     tasks |-> tasks, stats |-> stats]

SetEngine(acc) ==
    /\ trace_log' = acc.trace_log
    /\ appended' = acc.appended
    /\ cooldowns' = acc.cooldowns
    /\ tasks' = acc.tasks
    /\ stats' = acc.stats

\* One call of evaluate(); max_evals bounds the number of calls that pass the fast
\* exit.  last records a call that passed it: its arguments, and how many traces
\* and tasks there were before it.
Evaluate(source_ieee, changed_data, max_evals) ==
    /\ UNCHANGED service_vars
    /\ stats.evaluations < max_evals
    /\ SetEngine(EvaluateCall(Engine, rules, source_index, source_ieee, changed_data,
                              device_state, devices, now))
    /\ last' = IF Get(source_index, source_ieee, <<>>) = <<>> THEN last
               ELSE [op |-> "evaluate", source_ieee |-> source_ieee,
                     changed_data |-> changed_data, traces_before |-> Len(appended),
                     tasks_before |-> Len(tasks)]
    /\ UNCHANGED <<rules, source_index, now, devices, device_state, file, next_id>>

----------------------------------------------------------------------------
(* _execute_action_traced(): the dispatch task *)

\* What send_command can hand back to the task
SendResults ==
    {"dict_success", "dict_failure", "dict_without_success", "None", "truthy", "falsy",
     "raises"}

\* The classification of the result (automation.py, 742-754)
SendSuccess(result) == result \in {"dict_success", "dict_without_success", "None", "truthy"}

\* The task runs up to its first await: the CALLING trace, then send_command
TaskStart(i) ==
    /\ UNCHANGED service_vars
    /\ i \in 1..Len(tasks)
    /\ tasks[i].pc = "created"
    /\ SetEngine([Emit(Engine, Trace(tasks[i].rule_id, "DEBUG", "sending", "CALLING", <<>>), now)
                    EXCEPT !.tasks[i].pc = "send_command"])
    /\ UNCHANGED <<rules, source_index, now, devices, device_state, file, next_id, last>>

\* send_command returns or raises (automation.py, 735-790 and 807-827).  After
\* the EXCEPTION trace the only step left is the emitter call that swallows its
\* own exception (829-841), which changes nothing: the task is "done" there.
TaskResult(i, result, event_emitter) ==
    /\ UNCHANGED service_vars
    /\ i \in 1..Len(tasks)
    /\ tasks[i].pc = "send_command"
    /\ LET rule_id == tasks[i].rule_id
           next_pc == IF event_emitter THEN "emit" ELSE "done"
       IN  SetEngine(
             IF result = "raises"
             THEN [Emit(Engine, Trace(rule_id, "ERROR", "exception", "EXCEPTION", <<>>), now)
                     EXCEPT !.stats.errors = @ + 1,
                            !.stats.execution_failures = @ + 1,
                            !.tasks[i].pc = "done"]
             ELSE IF SendSuccess(result)
             THEN [Emit(Engine, Trace(rule_id, "INFO", "result", "SUCCESS", <<>>), now)
                     EXCEPT !.stats.executions = @ + 1,
                            !.stats.execution_successes = @ + 1,
                            !.tasks[i].pc = next_pc]
             ELSE [Emit(Engine, Trace(rule_id, "ERROR", "result", "COMMAND_FAILED", <<>>), now)
                     EXCEPT !.stats.executions = @ + 1,
                            !.stats.execution_failures = @ + 1,
                            !.tasks[i].pc = next_pc])
    /\ UNCHANGED <<rules, source_index, now, devices, device_state, file, next_id, last>>

\* The awaited event emitter returns or raises (automation.py, 793-805 and 807-841)
TaskEmitted(i, raises) ==
    /\ UNCHANGED service_vars
    /\ i \in 1..Len(tasks)
    /\ tasks[i].pc = "emit"
    /\ SetEngine(
         IF raises
         THEN [Emit(Engine, Trace(tasks[i].rule_id, "ERROR", "exception", "EXCEPTION", <<>>), now)
                 EXCEPT !.stats.errors = @ + 1,
                        !.stats.execution_failures = @ + 1,
                        !.tasks[i].pc = "done"]
         ELSE [Engine EXCEPT !.tasks[i].pc = "done"])
    /\ UNCHANGED <<rules, source_index, now, devices, device_state, file, next_id, last>>

\* time.time() advances
Tick(max_time) ==
    /\ UNCHANGED service_vars
    /\ now < max_time
    /\ now' = now + 1
    /\ UNCHANGED <<rules, source_index, cooldowns, trace_log, stats, devices, device_state,
                   tasks, file, next_id, last, appended>>

----------------------------------------------------------------------------
(* The evaluation specification: an engine that loaded eight rules from its  *)
(* file, and the calls of evaluate() over time.  The dispatch tasks it       *)
(* creates stay pending here; SpecDispatch runs them.                        *)

MaxEvals == 3       \* evaluate() calls that pass the fast exit
MaxTime == 2        \* seconds the clock advances
StartTime == 10     \* time.time() at construction, beyond every cooldown

Gone    == "aa09"       \* a sensor that left the registry after its rule was stored
Removed == "bb09"       \* a target that left the registry after its rule was stored

Cond(attribute, operator, value) ==
    [attribute |-> attribute, operator |-> operator, value |-> value]

Action(command) == [command |-> command, value |-> I(0), endpoint_id |-> I(1)]

EvalRules ==
    << [id |-> 1, enabled |-> TRUE, source_ieee |-> SensorA,
        conditions |-> <<Cond("illuminance", "lt", I(50)), Cond("occupancy", "eq", B(TRUE))>>,
        target_ieee |-> Light, action |-> Action("on"), cooldown |-> 2],
       [id |-> 2, enabled |-> TRUE, source_ieee |-> SensorA,
        conditions |-> <<Cond("temperature", "gte", NumStr(20))>>,
        target_ieee |-> Plug, action |-> Action("brightness")],
       [id |-> 3, enabled |-> FALSE, source_ieee |-> SensorA,
        conditions |-> <<Cond("occupancy", "eq", B(TRUE))>>,
        target_ieee |-> Light, action |-> Action("off"), cooldown |-> 2],
       [id |-> 4, enabled |-> TRUE, source_ieee |-> SensorA,
        conditions |-> <<Cond("occupancy", "eq", S("True")),
                         Cond("illuminance", "gt", S("abc")),
                         Cond("temperature", "gte", I(20))>>,
        target_ieee |-> Light, action |-> Action("toggle"), cooldown |-> 2],
       [id |-> 5, enabled |-> TRUE, source_ieee |-> SensorA,
        conditions |-> <<Cond("temperature", "lt", I(50))>>,
        target_ieee |-> Stub, action |-> Action("open"), cooldown |-> 0],
       [id |-> 6, enabled |-> TRUE, source_ieee |-> Gone,
        conditions |-> <<Cond("occupancy", "eq", B(TRUE))>>,
        target_ieee |-> Light, action |-> Action("on"), cooldown |-> 2],
       [id |-> 7, enabled |-> TRUE, source_ieee |-> SensorA,
        conditions |-> <<Cond("temperature", "neq", I(0))>>,
        target_ieee |-> Removed, action |-> Action("on"), cooldown |-> 1],
       [id |-> 8, enabled |-> TRUE, source_ieee |-> SensorA,
        conditions |-> <<>>,
        target_ieee |-> Light, action |-> Action("on"), cooldown |-> 1] >>

\* The deltas the device engine hands to evaluate()
Deltas ==
    { [illuminance |-> I(120)],
      [occupancy |-> B(TRUE)],
      [temperature |-> I(21)],
      [illuminance |-> I(30), occupancy |-> B(TRUE)] }

\* The cached state of the watched sensor
SensorStates == { <<>>, [illuminance |-> I(30)], [illuminance |-> I(200)] }

NoStats ==
    [evaluations |-> 0, matches |-> 0, executions |-> 0, execution_successes |-> 0,
     execution_failures |-> 0, errors |-> 0]

NoCall == [op |-> "none"]

Saved(rs) == [valid |-> TRUE, rules |-> rs]

\* The fields of a new IASZoneHandler; NoZoneType is the None of _zone_type.
\* lifecycle is the handler's place in the lifecycle the service keeps for it
\* (NEW, ACTIVE, DEGRADED), which follows the result of configure.
NoZoneType == -1

NewHandler == [zone_type |-> NoZoneType, zone_id |-> NoZoneType, last_status |-> 0,
               lifecycle |-> "NEW"]

\* The fields of a new ElectricalMeasurementHandler and of a new
\* MeteringHandler (multiplier, divisor) on the same device
INITIAL_CURRENT_DIVISOR == 1000

NewMeasurementHandler ==
    [power_multiplier |-> 1, power_divisor |-> 1,
     voltage_multiplier |-> 1, voltage_divisor |-> 1,
     current_multiplier |-> 1, current_divisor |-> INITIAL_CURRENT_DIVISOR,
     multiplier |-> 1, divisor |-> 1]

\* The fields of a new ZonesMessageHandler; setup_rssi_listener makes one for
\* the wrapper of packet_received, patch_message_handler one for the wrapper
\* of handle_message
NewIntake == [message_count |-> 0, rssi_capture_count |-> 0]

PacketIntake == "packet_received"
MessageIntake == "handle_message"

\* A service that has processed no frame yet
NoFastStats ==
    [total_processed |-> 0, fast_path_hits |-> 0, occupancy_events |-> 0,
     tuya_events |-> 0, ias_events |-> 0, parse_errors |-> 0]

ServiceStarted ==
    /\ fast_stats = NoFastStats
    /\ last_seen = [d \in AllDevices |-> 0]
    /\ cache_dirty = FALSE
    /\ handlers = [d \in {SensorA, Plug, PacketIntake, MessageIntake} |->
                      CASE d = SensorA -> NewHandler
                        [] d = Plug -> NewMeasurementHandler
                        [] OTHER -> NewIntake]

\* The engine after construction with the rules rs in its file
Loaded(rs) ==
    /\ ServiceStarted
    /\ rules = rs
    /\ source_index = RebuildIndex(rs)
    /\ cooldowns = <<>>
    /\ trace_log = <<>>
    /\ appended = <<>>
    /\ stats = NoStats
    /\ now = StartTime
    /\ devices = AllDevices
    /\ tasks = <<>>
    /\ file = Saved(rs)
    /\ next_id = Len(rs)
    /\ last = NoCall

Init ==
    /\ Loaded(EvalRules)
    /\ \E st \in SensorStates :
          device_state = [d \in AllDevices |-> IF d = SensorA THEN st ELSE <<>>]

\* The calls of evaluate(): every delta from the watched sensor, and one each
\* from a sensor without rules and from one that left the registry
EvalCalls ==
    {[source_ieee |-> SensorA, changed_data |-> d] : d \in Deltas}
    \cup {[source_ieee |-> SensorB, changed_data |-> [occupancy |-> B(TRUE)]],
          [source_ieee |-> Gone, changed_data |-> [temperature |-> I(21)]]}

Next ==
    \/ \E call \in EvalCalls :
          Evaluate(call.source_ieee, call.changed_data, MaxEvals)
    \/ Tick(StartTime + MaxTime)

Spec == Init /\ [][Next]_vars

----------------------------------------------------------------------------
(* The dispatch specification: one rule, its evaluations and its tasks *)

MaxDispatchEvals == 2   \* evaluate() calls
MaxDispatchTime == 2    \* seconds the clock advances

DispatchRules ==
    << [id |-> 1, enabled |-> TRUE, source_ieee |-> SensorA,
        conditions |-> <<Cond("occupancy", "eq", B(TRUE))>>,
        target_ieee |-> Light, action |-> Action("on"), cooldown |-> 2] >>

DispatchDeltas == { [occupancy |-> B(TRUE)], [occupancy |-> B(FALSE)] }

InitDispatch ==
    /\ Loaded(DispatchRules)
    /\ device_state = [d \in AllDevices |-> <<>>]

NextDispatch ==
    \/ \E changed_data \in DispatchDeltas : Evaluate(SensorA, changed_data, MaxDispatchEvals)
    \/ \E i \in 1..Len(tasks) : TaskStart(i)
    \/ \E i \in 1..Len(tasks), result \in SendResults, event_emitter \in BOOLEAN :
          TaskResult(i, result, event_emitter)
    \/ \E i \in 1..Len(tasks), raises \in BOOLEAN : TaskEmitted(i, raises)
    \/ Tick(StartTime + MaxDispatchTime)

SpecDispatch == InitDispatch /\ [][NextDispatch]_vars

----------------------------------------------------------------------------
(* The trace specification: a sensor with the ten rules it may own, so that   *)
(* every evaluation appends eleven traces or more and the ring overflows      *)
(* after ten calls; the one rule that watches occupancy fires and its task    *)
(* appends between the evaluations.  The clock stands still: the ring does    *)
(* not read the timestamps.                                                   *)

MaxTraceEvals == 10     \* evaluate() calls
MaxTraceMatches == 1    \* of them, calls whose delta matches the occupancy rule

TraceRule(id) ==
    [id |-> id, enabled |-> (id % 3 # 0), source_ieee |-> SensorA,
     conditions |-> <<IF id = 1 THEN Cond("occupancy", "eq", B(TRUE))
                      ELSE Cond("humidity", "gt", I(id))>>,
     target_ieee |-> Light, action |-> Action("on")]

TraceRules == [id \in 1..MAX_RULES_PER_DEVICE |-> TraceRule(id)]

InitTrace ==
    /\ Loaded(TraceRules)
    /\ device_state = [d \in AllDevices |-> <<>>]

NextTrace ==
    \/ Evaluate(SensorA, [temperature |-> I(21)], MaxTraceEvals)
    \/ /\ stats.matches < MaxTraceMatches
       /\ Evaluate(SensorA, [occupancy |-> B(TRUE)], MaxTraceEvals)
    \/ \E i \in 1..Len(tasks) : TaskStart(i)
    \/ \E i \in 1..Len(tasks), result \in SendResults, event_emitter \in BOOLEAN :
          TaskResult(i, result, event_emitter)
    \/ \E i \in 1..Len(tasks), raises \in BOOLEAN : TaskEmitted(i, raises)

SpecTrace == InitTrace /\ [][NextTrace]_vars

----------------------------------------------------------------------------
(* add_rule(), update_rule(), delete_rule() and _save_rules()                 *)
(*                                                                            *)
(* A request is a dict: a function whose domain is the keys it carries.  The  *)
(* value under "conditions" records its Python type beside its items.         *)

None == [t |-> "none", n |-> 0, s |-> ""]   \* None where a value is expected
NoneStr == "None"                           \* None where a string is expected

List(items) == [type |-> "list", items |-> items]
NoList == [type |-> "NoneType", items |-> <<>>]
NotAList == [type |-> "dict", items |-> <<>>]     \* a non-empty dict

\* bool(v) of the value under "conditions"
Truthy(v) == IF v.type = "list" THEN v.items # <<>> ELSE v.type # "NoneType"

\* d[k] = v
SetField(d, k, v) == (k :> v) @@ d

Failure(error) == [success |-> FALSE, error |-> error, raised |-> FALSE]
Success == [success |-> TRUE, error |-> "", raised |-> FALSE]
Raised == [success |-> FALSE, error |-> "", raised |-> TRUE]

\* add_rule, "Build conditions list": the list to validate, or the error
BuildConditions(rule_data) ==
    LET conditions == Get(rule_data, "conditions", NoList)
    IN  IF Truthy(conditions)
        THEN IF conditions.type # "list" \/ Len(conditions.items) = 0
             THEN [error |-> "conditions must be a non-empty list", conditions |-> <<>>]
             ELSE IF Len(conditions.items) > MAX_CONDITIONS_PER_RULE
             THEN [error |-> "Maximum conditions per rule", conditions |-> <<>>]
             ELSE [error |-> "", conditions |-> conditions.items]
        ELSE IF {"attribute", "operator", "value"} \subseteq DOMAIN rule_data
        THEN [error |-> "",
              conditions |-> <<[attribute |-> rule_data.attribute,
                                operator |-> rule_data.operator,
                                value |-> rule_data.value]>>]
        ELSE [error |-> "Provide conditions list or attribute/operator/value fields",
              conditions |-> <<>>]

\* Mutant: only the first condition is validated
ConditionsErrorFirstOnly(conditions, i) ==
    IF i > 1 \/ i > Len(conditions) THEN ""
    ELSE IF ~({"attribute", "operator", "value"} \subseteq DOMAIN conditions[i])
    THEN "Condition missing field"
    ELSE IF conditions[i].operator \notin OPERATORS THEN "Condition invalid operator"
    ELSE ""

\* "Validate each condition", from condition i on: the first error, "" for none
RECURSIVE ConditionsError(_, _)
ConditionsError(conditions, i) ==
    IF i > Len(conditions) THEN ""
    ELSE IF ~({"attribute", "operator", "value"} \subseteq DOMAIN conditions[i])
    THEN "Condition missing field"
    ELSE IF conditions[i].operator \notin OPERATORS THEN "Condition invalid operator"
    ELSE ConditionsError(conditions, i + 1)

\* Mutant: the limit is tested with > for >=
TooManyRulesAbove(index, source_ieee) ==
    Len(Get(index, source_ieee, <<>>)) > MAX_RULES_PER_DEVICE

\* "Check max rules per source device"
TooManyRules(index, source_ieee) ==
    Len(Get(index, source_ieee, <<>>)) >= MAX_RULES_PER_DEVICE

\* The validation of add_rule, in its order: the error returned, "" for none
AddRuleError(rule_data, index, devs) ==
    LET built == BuildConditions(rule_data)
    IN  IF built.error # "" THEN built.error
        ELSE IF ConditionsError(built.conditions, 1) # ""
        THEN ConditionsError(built.conditions, 1)
        ELSE IF ~({"source_ieee", "target_ieee", "command"} \subseteq DOMAIN rule_data)
        THEN "Missing required field"
        ELSE IF rule_data.command \notin VALID_COMMANDS THEN "Invalid command"
        ELSE IF TooManyRules(index, rule_data.source_ieee)
        THEN "Maximum rules per device reached"
        ELSE IF rule_data.source_ieee \notin devs THEN "Source device not found"
        ELSE IF rule_data.target_ieee \notin devs THEN "Target device not found"
        ELSE ""

\* "Build the rule"; id stands for the fresh uuid
BuildRule(rule_data, conditions, id, t) ==
    [id |-> id,
     enabled |-> Get(rule_data, "enabled", TRUE),
     source_ieee |-> rule_data.source_ieee,
     conditions |-> conditions,
     target_ieee |-> rule_data.target_ieee,
     action |-> [command |-> rule_data.command,
                 value |-> Get(rule_data, "command_value", None),
                 endpoint_id |-> Get(rule_data, "endpoint_id", None)],
     cooldown |-> Get(rule_data, "cooldown", DEFAULT_COOLDOWN),
     created |-> t]

\* What a call of _save_rules can come to: the document is written; makedirs
\* raises, out of the calling operation; open fails; the dump fails after open
\* has truncated the file.  The last two are caught and logged.
SaveOutcomes == {"saved", "makedirs_raises", "open_fails", "dump_fails"}

Broken == [valid |-> FALSE, rules |-> <<>>]

\* The file after _save_rules
SaveRules(rs, f, outcome) ==
    CASE outcome = "saved" -> Saved(rs)
      [] outcome = "dump_fails" -> Broken
      [] OTHER -> f

\* add_rule(rule_data); max_ids caps the ids handed out
AddRule(rule_data, outcome, max_ids) ==
    LET error == AddRuleError(rule_data, source_index, devices)
        call == [op |-> "add_rule", rule_data |-> rule_data]
    IN  /\ UNCHANGED service_vars
        /\ IF error # ""
           THEN /\ last' = SetField(call, "result", Failure(error))
                /\ UNCHANGED <<rules, source_index, file, next_id>>
           ELSE LET rule == BuildRule(rule_data, BuildConditions(rule_data).conditions,
                                      next_id + 1, now)
                IN  /\ next_id < max_ids
                    /\ rules' = Append(rules, rule)
                    /\ source_index' = RebuildIndex(rules')
                    /\ file' = SaveRules(rules', file, outcome)
                    /\ next_id' = next_id + 1
                    /\ last' = SetField(call, "result",
                                    IF outcome = "makedirs_raises" THEN Raised
                                    ELSE SetField(Success, "rule", rule))
        /\ UNCHANGED <<cooldowns, trace_log, appended, stats, now, devices,
                       device_state, tasks>>

\* Mutant: update_rule takes any conditions
UpdateConditionsErrorNone(conditions) == ""

\* update_rule, the checks on updates["conditions"]
UpdateConditionsError(conditions) ==
    IF conditions.type # "list" \/ Len(conditions.items) = 0
    THEN "conditions must be a non-empty list"
    ELSE IF Len(conditions.items) > MAX_CONDITIONS_PER_RULE
    THEN "Maximum conditions per rule"
    ELSE ConditionsError(conditions.items, 1)

\* max(0, int(cooldown))
ClampCooldown(cooldown) == IF cooldown < 0 THEN 0 ELSE cooldown

\* update_rule, after the conditions and the command were accepted
ApplyUpdates(rule, updates, t) ==
    LET action == [command |-> Get(updates, "command", rule.action.command),
                   value |-> Get(updates, "command_value", rule.action.value),
                   endpoint_id |-> Get(updates, "endpoint_id", rule.action.endpoint_id)]
        r1 == SetField(rule, "action", action)
        r2 == IF "target_ieee" \in DOMAIN updates
              THEN SetField(r1, "target_ieee", updates.target_ieee) ELSE r1
        r3 == IF "enabled" \in DOMAIN updates
              THEN SetField(r2, "enabled", updates.enabled) ELSE r2
        r4 == IF "cooldown" \in DOMAIN updates
              THEN SetField(r3, "cooldown", ClampCooldown(updates.cooldown)) ELSE r3
    IN  SetField(r4, "updated", t)

\* update_rule(rule_id, updates): the rule is changed in place, field by field
UpdateRule(rule_id, updates, outcome) ==
    LET i == FindRule(rules, rule_id)
        call == [op |-> "update_rule", rule_id |-> rule_id, updates |-> updates]
        error == IF "conditions" \in DOMAIN updates
                 THEN UpdateConditionsError(updates.conditions) ELSE ""
    IN  /\ UNCHANGED service_vars
        /\ IF i = 0
           THEN /\ last' = SetField(call, "result", Failure("Rule not found"))
                /\ UNCHANGED <<rules, source_index, file>>
           ELSE IF error # ""
           THEN /\ last' = SetField(call, "result", Failure(error))
                /\ UNCHANGED <<rules, source_index, file>>
           ELSE LET rule == IF "conditions" \in DOMAIN updates
                            THEN SetField(rules[i], "conditions", updates.conditions.items)
                            ELSE rules[i]
                IN  IF "command" \in DOMAIN updates /\ updates.command \notin VALID_COMMANDS
                    THEN /\ rules' = [rules EXCEPT ![i] = rule]
                         /\ last' = SetField(call, "result", Failure("Invalid command"))
                         /\ UNCHANGED <<source_index, file>>
                    ELSE /\ rules' = [rules EXCEPT ![i] = ApplyUpdates(rule, updates, now)]
                         /\ source_index' = RebuildIndex(rules')
                         /\ file' = SaveRules(rules', file, outcome)
                         /\ last' = SetField(call, "result",
                                         IF outcome = "makedirs_raises" THEN Raised
                                         ELSE SetField(Success, "rule", rules'[i]))
        /\ UNCHANGED <<cooldowns, trace_log, appended, stats, now, devices,
                       device_state, tasks, next_id>>

\* list.remove and dict.pop
RemoveAt(seq, i) == SubSeq(seq, 1, i - 1) \o SubSeq(seq, i + 1, Len(seq))
Pop(d, k) == [x \in DOMAIN d \ {k} |-> d[x]]

\* Mutant: delete_rule leaves the index as it was
DeleteRuleStaleIndex(rule_id, outcome) ==
    LET i == FindRule(rules, rule_id)
        call == [op |-> "delete_rule", rule_id |-> rule_id]
    IN  /\ UNCHANGED service_vars
        /\ IF i = 0
           THEN /\ last' = SetField(call, "result", Failure("Rule not found"))
                /\ UNCHANGED <<rules, source_index, file, cooldowns>>
           ELSE /\ rules' = RemoveAt(rules, i)
                /\ cooldowns' = Pop(cooldowns, rule_id)
                /\ source_index' = source_index
                /\ file' = SaveRules(rules', file, outcome)
                /\ last' = SetField(call, "result",
                                IF outcome = "makedirs_raises" THEN Raised ELSE Success)
        /\ UNCHANGED <<trace_log, appended, stats, now, devices, device_state,
                       tasks, next_id>>

\* delete_rule(rule_id)
DeleteRule(rule_id, outcome) ==
    LET i == FindRule(rules, rule_id)
        call == [op |-> "delete_rule", rule_id |-> rule_id]
    IN  /\ UNCHANGED service_vars
        /\ IF i = 0
           THEN /\ last' = SetField(call, "result", Failure("Rule not found"))
                /\ UNCHANGED <<rules, source_index, file, cooldowns>>
           ELSE /\ rules' = RemoveAt(rules, i)
                /\ cooldowns' = Pop(cooldowns, rule_id)
                /\ source_index' = RebuildIndex(rules')
                /\ file' = SaveRules(rules', file, outcome)
                /\ last' = SetField(call, "result",
                                IF outcome = "makedirs_raises" THEN Raised ELSE Success)
        /\ UNCHANGED <<trace_log, appended, stats, now, devices, device_state,
                       tasks, next_id>>

----------------------------------------------------------------------------
(* The rule management specification: create, update and delete requests,     *)
(* valid and invalid, on an engine that starts without rules.                 *)

MaxCrudIds == 2     \* rules created

Occupied == Cond("occupancy", "eq", B(TRUE))

\* n conditions
Conds(n) == [i \in 1..n |-> Cond("illuminance", "lt", I(10 * i))]

\* The fields every request needs, without its conditions
Base(source_ieee, target_ieee, command) ==
    [source_ieee |-> source_ieee, target_ieee |-> target_ieee, command |-> command]

Shorthand == [attribute |-> "occupancy", operator |-> "eq", value |-> B(TRUE)]

\* What create_automation hands over when the request names no condition:
\* model_dump() spells every absent field out as None
Dumped ==
    [conditions |-> NoList, attribute |-> NoneStr, operator |-> NoneStr, value |-> None,
     command_value |-> None, endpoint_id |-> None, cooldown |-> DEFAULT_COOLDOWN,
     enabled |-> TRUE]

ValidRequests ==
    { SetField(Base(SensorA, Light, "on"), "conditions", List(<<Occupied>>)),
      Shorthand @@ Base(SensorA, Light, "on"),
      [conditions |-> List(Conds(MAX_CONDITIONS_PER_RULE)), enabled |-> FALSE,
       cooldown |-> 0, command_value |-> I(50), endpoint_id |-> I(2)]
         @@ Base(SensorB, Plug, "brightness") }

InvalidRequests ==
    { SetField(Base(SensorA, Light, "on"), "conditions",
               List(Conds(MAX_CONDITIONS_PER_RULE + 1))),
      SetField(Base(SensorA, Light, "on"), "conditions",
               List(<<Occupied, Cond("illuminance", "contains", I(5))>>)),
      SetField(Base(SensorA, Light, "on"), "conditions",
               List(<<[attribute |-> "occupancy", operator |-> "eq"]>>)),
      SetField(Base(SensorA, Light, "explode"), "conditions", List(<<Occupied>>)),
      SetField(Base(Gone, Light, "on"), "conditions", List(<<Occupied>>)),
      SetField(Base(SensorA, Removed, "on"), "conditions", List(<<Occupied>>)),
      [source_ieee |-> SensorA, command |-> "on", conditions |-> List(<<Occupied>>)],
      SetField(Base(SensorA, Light, "on"), "conditions", NotAList),
      Base(SensorA, Light, "on"),
      Base(SensorA, Light, "on") @@ Dumped }

\* Requests whose conditions field is an empty list
EmptyListRequests ==
    { SetField(Base(SensorA, Light, "on"), "conditions", List(<<>>)),
      SetField(Shorthand @@ Base(SensorA, Light, "on"), "conditions", List(<<>>)) }

CrudRequests == ValidRequests \cup InvalidRequests \cup EmptyListRequests

CrudUpdates ==
    { [enabled |-> FALSE, cooldown |-> 0 - 1, command |-> "off"],
      [conditions |-> List(<<>>), enabled |-> FALSE],
      [conditions |-> List(Conds(2)), command |-> "explode"] }

InitCrud ==
    /\ Loaded(<<>>)
    /\ device_state = [d \in AllDevices |-> <<>>]

NextCrud ==
    \/ \E rule_data \in CrudRequests : AddRule(rule_data, "saved", MaxCrudIds)
    \/ \E rule_id \in 0..next_id, updates \in CrudUpdates :
          UpdateRule(rule_id, updates, "saved")
    \/ \E rule_id \in 0..next_id : DeleteRule(rule_id, "saved")

SpecCrud == InitCrud /\ [][NextCrud]_vars

----------------------------------------------------------------------------
(* The rule limit specification: valid create requests up to the limit of a   *)
(* source and past it, with updates and deletes of the oldest rules.  The save *)
(* of a delete can fail, when the file is up to date.                         *)

MaxLimitIds == 11       \* rules created
MaxLimitTarget == 1     \* update and delete address the rules 1..MaxLimitTarget
MaxLimitOther == 1      \* rules of the second source

\* how many rules of rs a source owns
RECURSIVE Owned(_, _)
Owned(rs, source_ieee) ==
    IF rs = <<>> THEN 0
    ELSE (IF Head(rs).source_ieee = source_ieee THEN 1 ELSE 0) + Owned(Tail(rs), source_ieee)

LimitRequest(source_ieee) ==
    SetField(Base(source_ieee, Light, "on"), "conditions", List(<<Occupied>>))

InitLimit ==
    /\ Loaded(<<>>)
    /\ device_state = [d \in AllDevices |-> <<>>]

NextLimit ==
    \/ AddRule(LimitRequest(SensorA), "saved", MaxLimitIds)
    \/ /\ Owned(rules, SensorB) < MaxLimitOther
       /\ AddRule(LimitRequest(SensorB), "saved", MaxLimitIds)
    \/ \E rule_id \in 1..MaxLimitTarget : UpdateRule(rule_id, [enabled |-> FALSE], "saved")
    \/ \E rule_id \in 1..MaxLimitTarget, outcome \in SaveOutcomes :
          /\ outcome # "saved" => file = Saved(rules)
          /\ DeleteRule(rule_id, outcome)

SpecLimit == InitLimit /\ [][NextLimit]_vars

----------------------------------------------------------------------------
(* The persistence specification: valid create, update and delete requests    *)
(* whose save can come to any of its outcomes.                                *)

MaxSaveIds == 2     \* rules created

InitSave ==
    /\ Loaded(<<>>)
    /\ device_state = [d \in AllDevices |-> <<>>]

NextSave ==
    \E outcome \in SaveOutcomes :
       \/ \E source_ieee \in {SensorA, SensorB} :
             AddRule(LimitRequest(source_ieee), outcome, MaxSaveIds)
       \/ \E rule_id \in 1..next_id : UpdateRule(rule_id, [enabled |-> FALSE], outcome)
       \/ \E rule_id \in 1..next_id : DeleteRule(rule_id, outcome)

SpecSave == InitSave /\ [][NextSave]_vars

----------------------------------------------------------------------------
(* _load_rules() and the legacy threshold format *)

\* A rule with a threshold and no conditions
IsLegacy(rule) == "threshold" \in DOMAIN rule /\ "conditions" \notin DOMAIN rule

\* Mutant: the threshold stays in the migrated rule
MigrateRuleKeep(rule) ==
    IF IsLegacy(rule) THEN SetField(rule, "conditions", <<rule.threshold>>) ELSE rule

\* rule["conditions"] = [rule.pop("threshold")]
MigrateRule(rule) ==
    IF IsLegacy(rule)
    THEN SetField(Pop(rule, "threshold"), "conditions", <<rule.threshold>>)
    ELSE rule

\* _load_rules on the file f: the rules in memory and the file afterwards.  A
\* document that does not parse leaves no rules; the save of a migration can fail
\* as any save, but for makedirs: the directory of a file that was read exists.
LoadRules(f, outcome) ==
    IF ~f.valid THEN [rules |-> <<>>, file |-> f]
    ELSE LET rs == [i \in 1..Len(f.rules) |-> MigrateRule(f.rules[i])]
             migrated == \E i \in 1..Len(f.rules) : IsLegacy(f.rules[i])
         IN  [rules |-> rs, file |-> IF migrated THEN SaveRules(rs, f, outcome) ELSE f]

LoadOutcomes == SaveOutcomes \ {"makedirs_raises"}

\* The process restarts: a new engine is constructed from the file
Restart(outcome) ==
    LET loaded == LoadRules(file, outcome)
    IN  /\ UNCHANGED service_vars
        /\ rules' = loaded.rules
        /\ source_index' = RebuildIndex(loaded.rules)
        /\ file' = loaded.file
        /\ cooldowns' = <<>>
        /\ trace_log' = <<>>
        /\ appended' = <<>>
        /\ stats' = NoStats
        /\ tasks' = <<>>
        /\ last' = [op |-> "load", file_before |-> file, outcome |-> outcome]
        /\ UNCHANGED <<now, devices, device_state, next_id>>

----------------------------------------------------------------------------
(* The load specification: an engine that started without a file, the file of *)
(* an earlier version put in its place, and the restarts and evaluations that *)
(* follow.                                                                    *)

MaxLoadEvals == 3   \* evaluate() calls between two restarts

LegacyRule(id, attribute, value, target_ieee) ==
    [id |-> id, enabled |-> TRUE, source_ieee |-> SensorA,
     threshold |-> Cond(attribute, "eq", value),
     target_ieee |-> target_ieee, action |-> Action("on"), cooldown |-> 2]

\* A rule of the current format, and one that carries both fields
CurrentRule(id) ==
    [id |-> id, enabled |-> TRUE, source_ieee |-> SensorA,
     conditions |-> <<Cond("temperature", "gte", I(20))>>,
     target_ieee |-> Light, action |-> Action("off"), cooldown |-> 2]

BothRule(id) == SetField(CurrentRule(id), "threshold", Cond("occupancy", "eq", B(FALSE)))

LegacyFiles ==
    { Saved(<<LegacyRule(1, "occupancy", B(TRUE), Light)>>),
      Saved(<<LegacyRule(1, "occupancy", B(TRUE), Light), CurrentRule(2)>>),
      Saved(<<BothRule(1), LegacyRule(2, "temperature", I(21), Stub),
              LegacyRule(3, "occupancy", B(TRUE), Light)>>),
      Saved(<<CurrentRule(1)>>),
      Broken }

LoadDeltas == { [occupancy |-> B(TRUE)], [temperature |-> I(21)] }

InitLoad ==
    \E f \in LegacyFiles :
       /\ ServiceStarted
       /\ rules = <<>>
       /\ source_index = <<>>
       /\ file = f
       /\ cooldowns = <<>>
       /\ trace_log = <<>>
       /\ appended = <<>>
       /\ stats = NoStats
       /\ now = StartTime
       /\ devices = AllDevices
       /\ device_state = [d \in AllDevices |-> <<>>]
       /\ tasks = <<>>
       /\ next_id = Len(f.rules)
       /\ last = NoCall

NextLoad ==
    \/ \E changed_data \in LoadDeltas : Evaluate(SensorA, changed_data, MaxLoadEvals)
    \/ \E outcome \in LoadOutcomes : Restart(outcome)

SpecLoad == InitLoad /\ [][NextLoad]_vars

----------------------------------------------------------------------------
(* The self-trigger specification: a rule whose target is its own source and  *)
(* which does not cool down.  The device reports its state, also the state    *)
(* the rule's command has put it in, and every report is a call of evaluate().*)

MaxSelfEvals == 2   \* evaluate() calls

SelfRules ==
    << [id |-> 1, enabled |-> TRUE, source_ieee |-> Light,
        conditions |-> <<Cond("state", "eq", B(TRUE))>>,
        target_ieee |-> Light, action |-> Action("off"), cooldown |-> 0] >>

SelfDeltas == { [state |-> B(TRUE)], [state |-> B(FALSE)] }

InitSelf ==
    /\ Loaded(SelfRules)
    /\ device_state = [d \in AllDevices |-> <<>>]

NextSelf ==
    \/ \E changed_data \in SelfDeltas : Evaluate(Light, changed_data, MaxSelfEvals)
    \/ \E i \in 1..Len(tasks) : TaskStart(i)
    \/ \E i \in 1..Len(tasks), result \in SendResults, event_emitter \in BOOLEAN :
          TaskResult(i, result, event_emitter)
    \/ \E i \in 1..Len(tasks), raises \in BOOLEAN : TaskEmitted(i, raises)

SpecSelf == InitSelf /\ [][NextSelf]_vars

----------------------------------------------------------------------------
(* The fast-path frame decoder (src/handlers/fast_path.py)                    *)
(*                                                                            *)
(*  - A frame is a sequence of bytes 0..255; message[i] of the code is        *)
(*    At(message, i).                                                         *)
(*  - The service is the record [devices, device_state, last_seen,            *)
(*    cache_dirty] of the fields the decoder reads and writes; a device's     *)
(*    state map is a function from key to Python value.                       *)
(*  - A helper returns [result, raised, service]: raised says that a Python   *)
(*    exception left the helper's body at that point.                         *)
(*  - get_safe_name, mqtt.publish_fast and event_callback belong to the       *)
(*    service and write none of these fields.                                 *)

PROFILE_HA == 260                \* 0x0104
CLUSTER_OCCUPANCY == 1030        \* 0x0406
CLUSTER_ONOFF == 6               \* 0x0006
CLUSTER_TUYA == 61184            \* 0xEF00
CLUSTER_IAS_ZONE == 1280         \* 0x0500
CMD_REPORT_ATTRIBUTES == 10      \* 0x0A
DATA_TYPE_BOOL == 16             \* 0x10
DATA_TYPE_BITMAP8 == 24          \* 0x18

At(message, i) == message[i + 1]

\* message[a:b]
Slice(message, a, b) ==
    LET lo == IF a < Len(message) THEN a ELSE Len(message)
        hi == IF b < Len(message) THEN b ELSE Len(message)
    IN  IF hi <= lo THEN <<>> ELSE SubSeq(message, lo + 1, hi)

\* bool(n & (1 << k))
Bit(n, k) == (n \div (2 ^ k)) % 2 = 1

Service == [devices |-> devices, device_state |-> device_state,
            last_seen |-> last_seen, cache_dirty |-> cache_dirty]

\* int(time.time() * 1000)
Millis(t) == t * 1000

\* device.state[k] = v for every key of the map written
WriteState(sv, ieee, written, t) ==
    [sv EXCEPT !.device_state[ieee] = written @@ sv.device_state[ieee],
               !.last_seen[ieee] = Millis(t),
               !.cache_dirty = TRUE]

\* a size helper that takes a string for one byte
GetDataTypeSizeIgnoresLength(data_type, message, idx) ==
    CASE data_type = 0  -> 0
      [] data_type \in {16, 24, 32, 40, 48} -> 1
      [] data_type \in {25, 33, 41, 49, 57} -> 2
      [] data_type \in {26, 34} -> 3
      [] data_type \in {27, 35, 43, 58} -> 4
      [] data_type \in {65, 66} /\ idx < Len(message) -> 1
      [] OTHER -> -1

\* _get_data_type_size: -1 for a type it does not know
GetDataTypeSize(data_type, message, idx) ==
    CASE data_type = 0  -> 0
      [] data_type \in {16, 24, 32, 40, 48} -> 1     \* 0x10 0x18 0x20 0x28 0x30
      [] data_type \in {25, 33, 41, 49, 57} -> 2     \* 0x19 0x21 0x29 0x31 0x39
      [] data_type \in {26, 34} -> 3                 \* 0x1A 0x22
      [] data_type \in {27, 35, 43, 58} -> 4         \* 0x1B 0x23 0x2B 0x3A
      [] data_type \in {65, 66} /\ idx < Len(message) -> 1 + At(message, idx)
      [] OTHER -> -1

\* _emit_motion_immediate
EmitMotionImmediate(sv, ieee, occupied, t) ==
    IF ieee \notin sv.devices THEN sv
    ELSE WriteState(sv, ieee,
                    [occupancy |-> B(occupied), motion |-> B(occupied),
                     presence |-> B(occupied)], t)

\* _emit_presence_immediate with distance None
EmitPresenceImmediate(sv, ieee, present, t) ==
    IF ieee \notin sv.devices THEN sv
    ELSE WriteState(sv, ieee,
                    [presence |-> B(present), state |-> B(present),
                     occupancy |-> B(present)], t)

\* _emit_ias_zone_immediate
EmitIasZoneImmediate(sv, ieee, zone_status, alarm, tamper, battery_low, t) ==
    IF ieee \notin sv.devices THEN sv
    ELSE WriteState(sv, ieee,
                    [zone_status |-> I(zone_status), contact |-> B(~alarm),
                     tamper |-> B(tamper), battery_low |-> B(battery_low)], t)

Returns(result, sv) == [result |-> result, raised |-> FALSE, service |-> sv]
Raises(sv) == [result |-> FALSE, raised |-> TRUE, service |-> sv]

\* is_active = bool(value & 0x01)
IsActiveNonZero(value) == value # 0
IsActive(value) == Bit(value, 0)

\* the while loop of _fast_path_generic_attribute, from record offset idx
RECURSIVE ScanAttributes(_, _, _, _, _, _)
ScanAttributes(sv, ieee, message, target_attr_id, idx, t) ==
    IF ~(idx + 3 <= Len(message)) THEN Returns(FALSE, sv)
    ELSE LET attr_id == At(message, idx) + 256 * At(message, idx + 1)
             data_type == At(message, idx + 2)
             data_size == GetDataTypeSize(data_type, message, idx + 3)
         IN  IF /\ attr_id = target_attr_id
                /\ data_type \in {DATA_TYPE_BOOL, DATA_TYPE_BITMAP8}
                /\ idx + 3 < Len(message)
             THEN Returns(TRUE, EmitMotionImmediate(sv, ieee,
                                                    IsActive(At(message, idx + 3)), t))
             ELSE IF idx + 3 >= Len(message) THEN Returns(FALSE, sv)
             ELSE IF data_size < 0 THEN Returns(FALSE, sv)
             ELSE ScanAttributes(sv, ieee, message, target_attr_id,
                                 idx + 3 + data_size, t)

\* the body of the try of _fast_path_generic_attribute
GenericAttributeBody(sv, ieee, message, target_attr_id, t) ==
    IF Len(message) < 3 THEN Returns(FALSE, sv)
    ELSE IF At(message, 2) # CMD_REPORT_ATTRIBUTES THEN Returns(FALSE, sv)
    ELSE ScanAttributes(sv, ieee, message, target_attr_id, 3, t)

\* the while loop of _fast_path_tuya: presence_value is "none", "true" or
\* "false"; dp_data[0] of an empty dp_data is an IndexError
RECURSIVE ScanDps(_, _, _)
ScanDps(message, idx, presence_value) ==
    IF ~(idx + 4 <= Len(message)) THEN [raised |-> FALSE, presence_value |-> presence_value]
    ELSE LET dp_id == At(message, idx)
             dp_type == At(message, idx + 1)
             dp_len == 256 * At(message, idx + 2) + At(message, idx + 3)
             dp_data == Slice(message, idx + 4, idx + 4 + dp_len)
             text(b) == IF b THEN "true" ELSE "false"
         IN  IF idx + 4 + dp_len > Len(message)
             THEN [raised |-> FALSE, presence_value |-> presence_value]
             ELSE IF dp_id = 1 /\ dp_type = 4 /\ dp_len = 1
             THEN ScanDps(message, idx + 4 + dp_len, text(dp_data[1] > 0))
             ELSE IF dp_id = 1 /\ dp_type = 1
             THEN IF Len(dp_data) = 0
                  THEN [raised |-> TRUE, presence_value |-> presence_value]
                  ELSE ScanDps(message, idx + 4 + dp_len, text(dp_data[1] # 0))
             ELSE IF dp_id = 104 /\ dp_type = 1 /\ dp_len = 1
             THEN ScanDps(message, idx + 4 + dp_len, text(dp_data[1] # 0))
             ELSE ScanDps(message, idx + 4 + dp_len, presence_value)

\* a decoder that reads the DPs of a frame of any command
TuyaBodyAnyCommand(sv, ieee, message, t) ==
    IF Len(message) < 7 THEN Returns(FALSE, sv)
    ELSE LET scan == ScanDps(message, 6, "none")
         IN  IF scan.raised THEN Raises(sv)
             ELSE IF scan.presence_value # "none"
             THEN Returns(TRUE, EmitPresenceImmediate(sv, ieee,
                                                      scan.presence_value = "true", t))
             ELSE Returns(FALSE, sv)

\* the body of the try of _fast_path_tuya
TuyaBody(sv, ieee, message, t) ==
    IF Len(message) < 7 THEN Returns(FALSE, sv)
    ELSE IF At(message, 2) \notin {1, 2, 6} THEN Returns(FALSE, sv)
    ELSE LET scan == ScanDps(message, 6, "none")
         IN  IF scan.raised THEN Raises(sv)
             ELSE IF scan.presence_value # "none"
             THEN Returns(TRUE, EmitPresenceImmediate(sv, ieee,
                                                      scan.presence_value = "true", t))
             ELSE Returns(FALSE, sv)

\* the body of the try of _fast_path_ias_zone
IasZoneBody(sv, ieee, message, t) ==
    IF Len(message) < 5 THEN Returns(FALSE, sv)
    ELSE IF At(message, 2) = 0
    THEN LET zone_status == At(message, 3) + 256 * At(message, 4)
             alarm1 == Bit(zone_status, 0)
             tamper == Bit(zone_status, 3)          \* zone_status & 0x08
             battery_low == Bit(zone_status, 5)     \* zone_status & 0x20
         IN  Returns(TRUE, EmitIasZoneImmediate(sv, ieee, zone_status, alarm1,
                                                tamper, battery_low, t))
    ELSE Returns(FALSE, sv)

\* except Exception of a helper: the exception is counted and the helper
\* falls through to its return False
ExceptEscapes(out, counters) == [out |-> out, counters |-> counters, error |-> out.raised]
Except(out, counters) ==
    IF out.raised
    THEN [out |-> Returns(FALSE, out.service),
          counters |-> [counters EXCEPT !.parse_errors = @ + 1], error |-> TRUE]
    ELSE [out |-> out, counters |-> counters, error |-> FALSE]

\* _fast_path_occupancy and _fast_path_onoff
FastPathGenericAttribute(sv, counters, ieee, message, target_attr_id, t) ==
    Except(GenericAttributeBody(sv, ieee, message, target_attr_id, t), counters)

FastPathOccupancy(sv, counters, ieee, message, t) ==
    FastPathGenericAttribute(sv, counters, ieee, message, 0, t)

FastPathOnoff(sv, counters, ieee, message, t) ==
    FastPathGenericAttribute(sv, counters, ieee, message, 0, t)

FastPathTuya(sv, counters, ieee, message, t) ==
    Except(TuyaBody(sv, ieee, message, t), counters)

FastPathIasZone(sv, counters, ieee, message, t) ==
    Except(IasZoneBody(sv, ieee, message, t), counters)

\* if result: fast_path_hits += 1 and the cluster's event counter += 1
CountHit(helper, event) ==
    [result |-> helper.out.result, raised |-> helper.out.raised,
     error |-> helper.error, service |-> helper.out.service,
     counters |-> IF helper.out.result /\ ~helper.out.raised
                  THEN [helper.counters EXCEPT !.fast_path_hits = @ + 1, ![event] = @ + 1]
                  ELSE helper.counters]

\* process_frame
ProcessFrameCall(sv, counters, sender_ieee, profile, cluster, message, t) ==
    LET counted == [counters EXCEPT !.total_processed = @ + 1]
    IN  IF profile # PROFILE_HA
        THEN [result |-> FALSE, raised |-> FALSE, error |-> FALSE, service |-> sv,
              counters |-> counted]
        ELSE CASE cluster = CLUSTER_OCCUPANCY ->
                    CountHit(FastPathOccupancy(sv, counted, sender_ieee, message, t),
                             "occupancy_events")
               [] cluster = CLUSTER_ONOFF ->
                    CountHit(FastPathOnoff(sv, counted, sender_ieee, message, t),
                             "occupancy_events")
               [] cluster = CLUSTER_TUYA ->
                    CountHit(FastPathTuya(sv, counted, sender_ieee, message, t),
                             "tuya_events")
               [] cluster = CLUSTER_IAS_ZONE ->
                    CountHit(FastPathIasZone(sv, counted, sender_ieee, message, t),
                             "ias_events")
               [] OTHER ->
                    [result |-> FALSE, raised |-> FALSE, error |-> FALSE, service |-> sv,
                     counters |-> counted]

\* One call of process_frame; the call record keeps the arguments, what the
\* call returned, whether an exception left it, and whether one was raised
\* while decoding
ProcessFrame(sender_ieee, profile, cluster, message) ==
    \E call \in {ProcessFrameCall(Service, fast_stats, sender_ieee, profile, cluster,
                                  message, now)} :
        /\ fast_stats' = call.counters
        /\ device_state' = call.service.device_state
        /\ last_seen' = call.service.last_seen
        /\ cache_dirty' = call.service.cache_dirty
        /\ last' = [op |-> "process_frame", sender_ieee |-> sender_ieee,
                    profile |-> profile, cluster |-> cluster, message |-> message,
                    result |-> call.result, raised |-> call.raised,
                    error |-> call.error]
        /\ UNCHANGED <<rules, source_index, cooldowns, trace_log, stats, now, devices,
                       tasks, file, next_id, appended, handlers>>

----------------------------------------------------------------------------
(* The fast-path specification: a service whose known sensor is in any of    *)
(* the states earlier frames leave it in, and the one frame it is handed      *)
(* next: frames of every recognised cluster, whole and cut short at every     *)
(* length. process_frame reads nothing of the service but the registry, so    *)
(* one call from each state of the sensor stands for the calls of a sequence. *)

MaxFastRecords == 2     \* attribute or DP records in a frame
MaxFastTime == 1        \* seconds the clock advances

OTHER_PROFILE == 49246           \* 0xC05E
CLUSTER_LEVEL == 8               \* 0x0008

FastClusters ==
    {CLUSTER_OCCUPANCY, CLUSTER_ONOFF, CLUSTER_TUYA, CLUSTER_IAS_ZONE, CLUSTER_LEVEL}

\* every sequence of at most n elements of the set s
SeqsUpTo(s, n) == UNION {[1..k -> s] : k \in 0..n}

\* the bytes of the records of q, one after the other
Flatten(q) ==
    LET bytes[i \in 0..Len(q)] == IF i = 0 THEN <<>> ELSE bytes[i - 1] \o q[i]
    IN  bytes[Len(q)]

Prefixes(message) == {SubSeq(message, 1, n) : n \in 0..Len(message)}

\* Report Attributes records: attribute 0x0000 as bitmap8 and boolean with the
\* low bit set and clear, and as uint16; attribute 0x0001 as boolean; a
\* character string; and a uint48 (0x25), a type outside the size table
AttributeRecords ==
    { <<0, 0, 24, 1>>, <<0, 0, 24, 0>>, <<0, 0, 16, 1>>, <<0, 0, 24, 2>>,
      <<0, 0, 33, 1, 0>>, <<1, 0, 16, 1>>, <<5, 0, 66, 2, 0, 0>>, <<2, 0, 37, 0, 0, 0, 0, 0, 0>> }

\* frame control, sequence number, command
AttributeHeaders == { <<24, 1, 10>>, <<24, 1, 1>> }

AttributeFrames ==
    UNION { Prefixes(h \o Flatten(q)) :
              h \in AttributeHeaders, q \in SeqsUpTo(AttributeRecords, MaxFastRecords) }

\* Tuya DP records: DP 1 as enum 0 and 2 and as bool with and without its data
\* byte, DP 104 as bool, and a DP the decoder does not read
DpRecords ==
    { <<1, 4, 0, 1, 0>>, <<1, 4, 0, 1, 2>>, <<1, 1, 0, 1, 1>>, <<1, 1, 0, 0>>,
      <<104, 1, 0, 1, 0>>, <<104, 1, 0, 1, 1>>, <<9, 2, 0, 4, 0, 0, 0, 50>> }

\* frame control, sequence number, command, status, 16-bit transaction
TuyaHeaders == { <<9, 1, 2, 0, 0, 1>>, <<9, 1, 36, 0, 0, 1>> }

TuyaFrames ==
    UNION { Prefixes(h \o Flatten(q)) :
              h \in TuyaHeaders, q \in SeqsUpTo(DpRecords, MaxFastRecords) }

\* Zone Status Change Notification: zone status, extended status, zone id,
\* delay; and a Zone Enroll Request
ZoneFrames ==
    UNION { Prefixes(<<9, 1, 0, zone_status, 0, 0, 1, 0, 0>>) : zone_status \in {0, 1, 12, 36} }
    \cup Prefixes(<<9, 1, 1, 21, 0, 0, 0>>)

\* the two frames of the occupancy scenario, a DP frame and a zone status frame
SampleFrames ==
    { <<24, 1, 10, 0, 0, 24, 1>>, <<24, 1, 10, 0, 0, 24, 0>>,
      <<9, 1, 2, 0, 0, 1, 1, 4, 0, 1, 1>>, <<9, 1, 0, 1, 0, 0>> }

\* Every frame on its own cluster from the known sensor; the sample frames on
\* every cluster and profile, from the sensor and from a sender outside the
\* registry
FastCalls ==
    {[sender_ieee |-> SensorA, profile |-> PROFILE_HA, cluster |-> c, message |-> m] :
        c \in {CLUSTER_OCCUPANCY, CLUSTER_ONOFF}, m \in AttributeFrames}
    \cup {[sender_ieee |-> SensorA, profile |-> PROFILE_HA, cluster |-> CLUSTER_TUYA,
           message |-> m] : m \in TuyaFrames}
    \cup {[sender_ieee |-> SensorA, profile |-> PROFILE_HA, cluster |-> CLUSTER_IAS_ZONE,
           message |-> m] : m \in ZoneFrames}
    \cup {[sender_ieee |-> s, profile |-> p, cluster |-> c, message |-> m] :
            s \in {SensorA, Gone}, p \in {PROFILE_HA, OTHER_PROFILE},
            c \in FastClusters, m \in SampleFrames}

\* the sensor's state map: empty, or as a frame of each kind left it
SensorBefore ==
    { <<>>,
      [occupancy |-> B(TRUE), motion |-> B(TRUE), presence |-> B(TRUE)],
      [occupancy |-> B(FALSE), motion |-> B(FALSE), presence |-> B(FALSE)],
      [presence |-> B(TRUE), state |-> B(TRUE), occupancy |-> B(TRUE)],
      [zone_status |-> I(1), contact |-> B(FALSE), tamper |-> B(FALSE),
       battery_low |-> B(FALSE)] }

InitFastPath ==
    /\ Loaded(<<>>)
    /\ \E before \in SensorBefore :
          device_state = [d \in AllDevices |-> IF d = SensorA THEN before ELSE <<>>]

NextFastPath ==
    \/ /\ last = NoCall
       /\ \E call \in FastCalls :
             ProcessFrame(call.sender_ieee, call.profile, call.cluster, call.message)
    \/ Tick(StartTime + MaxFastTime)

SpecFastPath == InitFastPath /\ [][NextFastPath]_vars

----------------------------------------------------------------------------
(* The IAS Zone handler (src/handlers/security.py)                            *)
(*                                                                            *)
(*  - A handler object is the record [zone_type, zone_id, last_status] of     *)
(*    its fields; NoZoneType is the None of _zone_type and _zone_id.          *)
(*  - device.update_state is code outside these sources; UpdateState is the   *)
(*    operation as the specification's section 4.C describes it.              *)

ZONE_STATUS_ALARM1 == 0          \* bit of ZoneStatus.ALARM1 = 0x0001
ZONE_STATUS_TAMPER == 2          \* bit of ZoneStatus.TAMPER = 0x0004
ZONE_STATUS_BATTERY_LOW == 3     \* bit of ZoneStatus.BATTERY_LOW = 0x0008
ZONE_STATUS_TROUBLE == 6         \* bit of ZoneStatus.TROUBLE = 0x0040

ATTR_ZONE_STATE == 0
ATTR_ZONE_TYPE == 1
ATTR_ZONE_STATUS == 2
ATTR_ZONE_ID == 17               \* 0x0011

\* ZONE_TYPES.get(value, f"unknown_0x{value:04x}")
ZoneTypeName(value) ==
    CASE value = 0   -> "standard_cie"
      [] value = 13  -> "motion_sensor"        \* 0x000D
      [] value = 21  -> "contact_switch"       \* 0x0015
      [] value = 40  -> "fire_sensor"          \* 0x0028
      [] value = 42  -> "water_sensor"         \* 0x002A
      [] value = 43  -> "co_sensor"            \* 0x002B
      [] value = 44  -> "vibration_sensor"     \* 0x002C
      [] value = 45  -> "remote_control"       \* 0x002D
      [] OTHER       -> "unknown"

\* update_state(partial): merge, with the delta of the keys whose value differs
Delta(state, partial) ==
    {k \in DOMAIN partial : k \notin DOMAIN state \/ state[k] # partial[k]}

UpdateState(sv, ieee, partial, t) ==
    [service |-> WriteState(sv, ieee, partial, t),
     delta |-> Delta(sv.device_state[ieee], partial)]

\* the zone-type keys with contact following alarm1, not inverted
ZoneTypeUpdatesContactFollows(zone_type, alarm1) ==
    CASE zone_type = 21 -> [contact |-> B(alarm1), is_open |-> B(alarm1)]
      [] zone_type \in {13, 0} ->
            [occupancy |-> B(alarm1), motion |-> B(alarm1), presence |-> B(alarm1)]
      [] zone_type = 42 -> [water_leak |-> B(alarm1)]
      [] zone_type = 40 -> [smoke |-> B(alarm1)]
      [] zone_type = 43 -> [co_detected |-> B(alarm1)]
      [] zone_type = 44 -> [vibration |-> B(alarm1)]
      [] OTHER -> [alarm |-> B(alarm1), occupancy |-> B(alarm1), motion |-> B(alarm1)]

\* the keys of updates that depend on the zone type
ZoneTypeUpdates(zone_type, alarm1) ==
    CASE zone_type = 21 -> [contact |-> B(~alarm1), is_open |-> B(alarm1)]
      [] zone_type \in {13, 0} ->
            [occupancy |-> B(alarm1), motion |-> B(alarm1), presence |-> B(alarm1)]
      [] zone_type = 42 -> [water_leak |-> B(alarm1)]
      [] zone_type = 40 -> [smoke |-> B(alarm1)]
      [] zone_type = 43 -> [co_detected |-> B(alarm1)]
      [] zone_type = 44 -> [vibration |-> B(alarm1)]
      [] OTHER -> [alarm |-> B(alarm1), occupancy |-> B(alarm1), motion |-> B(alarm1)]

\* updates of _handle_zone_status_change
ZoneStatusUpdates(handler, status) ==
    LET zone_type == IF handler.zone_type \in {NoZoneType, 0} THEN 13
                     ELSE handler.zone_type           \* self._zone_type or 0x000D
    IN  ZoneTypeUpdates(zone_type, Bit(status, ZONE_STATUS_ALARM1))
        @@ [zone_status |-> I(status),
            tamper |-> B(Bit(status, ZONE_STATUS_TAMPER)),
            battery_low |-> B(Bit(status, ZONE_STATUS_BATTERY_LOW)),
            trouble |-> B(Bit(status, ZONE_STATUS_TROUBLE))]

\* _handle_zone_status_change: [service, handler, updates, delta]; updates is
\* <<>> when the method returned before update_state
HandleZoneStatusChange(sv, handler, ieee, args, t) ==
    IF args = <<>>
    THEN [service |-> sv, handler |-> handler, updates |-> <<>>, delta |-> {}]
    ELSE LET status == args[1]
             updates == ZoneStatusUpdates(handler, status)
             updated == UpdateState(sv, ieee, updates, t)
         IN  [service |-> updated.service,
              handler |-> [handler EXCEPT !.last_status = status],
              updates |-> updates, delta |-> updated.delta]

\* The handler's call records keep the arguments, the map handed to
\* update_state and the delta it made
Handled(call, out) ==
    /\ device_state' = out.service.device_state
    /\ last_seen' = out.service.last_seen
    /\ cache_dirty' = out.service.cache_dirty
    /\ handlers' = [handlers EXCEPT ![call.ieee] = out.handler]
    /\ last' = call @@ [updates |-> out.updates, delta |-> out.delta]
    /\ UNCHANGED <<rules, source_index, cooldowns, trace_log, stats, now, devices,
                   tasks, file, next_id, appended, fast_stats>>

\* IASZoneHandler.cluster_command
ClusterCommand(ieee, tsn, command_id, args) ==
    LET call == [op |-> "cluster_command", ieee |-> ieee, command_id |-> command_id,
                 args |-> args]
    IN  IF command_id = 0
        THEN \E out \in {HandleZoneStatusChange(Service, handlers[ieee], ieee, args, now)} :
                Handled(call, out)
        ELSE Handled(call, [service |-> Service, handler |-> handlers[ieee],
                            updates |-> <<>>, delta |-> {}])

\* IASZoneHandler.attribute_updated
AttributeUpdated(ieee, attrid, value) ==
    LET call == [op |-> "attribute_updated", ieee |-> ieee, attrid |-> attrid,
                 value |-> value]
        handler == handlers[ieee]
        written(partial, h) ==
            \E updated \in {UpdateState(Service, ieee, partial, now)} :
               Handled(call, [service |-> updated.service, handler |-> h,
                              updates |-> partial, delta |-> updated.delta])
    IN  CASE attrid = ATTR_ZONE_TYPE ->
                written([zone_type |-> S(ZoneTypeName(value))],
                        [handler EXCEPT !.zone_type = value])
          [] attrid = ATTR_ZONE_STATUS ->
                \E out \in {HandleZoneStatusChange(Service, handler, ieee, <<value>>, now)} :
                   Handled(call, out)
          [] attrid = ATTR_ZONE_STATE ->
                written([zone_enrolled |-> B(value # 0)], handler)
          [] attrid = ATTR_ZONE_ID ->
                Handled(call, [service |-> Service,
                               handler |-> [handler EXCEPT !.zone_id = value],
                               updates |-> <<>>, delta |-> {}])
          [] OTHER ->
                Handled(call, [service |-> Service, handler |-> handler,
                               updates |-> <<>>, delta |-> {}])

----------------------------------------------------------------------------
(* The zone specification: a sensor with an IAS Zone handler. Every frame of  *)
(* cluster 0x0500 goes through the fast path first; the normal pipeline then  *)
(* hands the command of the frame it could decode to the handler. The zone    *)
(* type is learned once, from an attribute report.                            *)

MaxZoneFrames == 2      \* frames received

\* zone statuses over alarm1, tamper, battery-low and bit 5, and trouble alone
ZoneStatuses ==
    {a + 4 * b + 8 * c + 32 * d : a, b, c, d \in {0, 1}} \cup {64}

ZoneTypeValues == {0, 13, 21, 40, 42, 43, 44, 45}

\* Zone Status Change Notifications (zone status, extended status, zone id,
\* delay), one cut short inside the status, and a Zone Enroll Request
ZoneEvents ==
    {<<9, 1, 0, zone_status, 0, 0, 1, 0, 0>> : zone_status \in ZoneStatuses}
    \cup {<<9, 1, 0, 1>>, <<9, 1, 1, 21, 0, 0, 0>>}

\* the zone status a Zone Status Change Notification carries
ZoneStatusOf(message) == At(message, 3) + 256 * At(message, 4)

\* what the normal pipeline decodes from a frame: the command and its arguments
Decoded(message) ==
    IF At(message, 2) = 0
    THEN [command_id |-> 0,
          args |-> <<ZoneStatusOf(message), At(message, 5), At(message, 6),
                     At(message, 7) + 256 * At(message, 8)>>]
    ELSE [command_id |-> At(message, 2), args |-> <<At(message, 3) + 256 * At(message, 4),
                                                    At(message, 5) + 256 * At(message, 6)>>]

Decodable(message) ==
    Len(message) >= 3 /\ Len(message) = (IF At(message, 2) = 0 THEN 9 ELSE 7)

InitZone ==
    /\ Loaded(<<>>)
    /\ device_state = [d \in AllDevices |-> <<>>]

NextZone ==
    \/ /\ fast_stats.total_processed < MaxZoneFrames
       /\ \E message \in ZoneEvents :
             ProcessFrame(SensorA, PROFILE_HA, CLUSTER_IAS_ZONE, message)
    \/ /\ last.op = "process_frame"
       /\ Decodable(last.message)
       /\ ClusterCommand(last.sender_ieee, At(last.message, 1),
                         Decoded(last.message).command_id, Decoded(last.message).args)
    \/ /\ handlers[SensorA].zone_type = NoZoneType
       /\ \E value \in ZoneTypeValues : AttributeUpdated(SensorA, ATTR_ZONE_TYPE, value)

SpecZone == InitZone /\ [][NextZone]_vars

----------------------------------------------------------------------------
(* The Window Covering handler (src/handlers/blinds.py)                       *)
(*                                                                            *)
(*  - The handler has no fields of its own; it writes the device state        *)
(*    through update_state and sends cluster commands to the radio.           *)
(*  - A cluster command is awaited: it returns, or it raises and the          *)
(*    exception leaves the handler's method at that await.                    *)

ATTR_COVERING_TYPE == 0
ATTR_CURRENT_POSITION_LIFT_PCT == 8
ATTR_CURRENT_POSITION_TILT_PCT == 9
FULL_PERCENT == 100              \* the 100 of 100 - value and of value == 100

Cover == Stub                    \* the registry entry with the 0x0102 cluster

\* isinstance(value, (int, float)); a bool is an int
IsNumber(v) == v.t \in {"int", "bool"}

\* COVERING_TYPES.get(value, f"unknown_{value}")
CoveringTypeName(value) ==
    CASE value = I(0) -> "rollershade"
      [] value = I(6) -> "shutter"
      [] value = I(8) -> "tilt_blind_lift_and_tilt"
      [] OTHER -> "unknown"

\* A handler method that keeps no field: the state written, the command sent
\* to the radio (<<>> when none) and whether an exception left the method
Finished(call, sv, updates, delta, sent, raised) ==
    /\ device_state' = sv.device_state
    /\ last_seen' = sv.last_seen
    /\ cache_dirty' = sv.cache_dirty
    /\ last' = call @@ [updates |-> updates, delta |-> delta, sent |-> sent,
                        raised |-> raised]
    /\ UNCHANGED <<rules, source_index, cooldowns, trace_log, stats, now, devices,
                   tasks, file, next_id, appended, fast_stats, handlers>>

\* self.device.update_state(partial) as the last statement of a method
Updates(call, ieee, partial, sent) ==
    \E updated \in {UpdateState(Service, ieee, partial, now)} :
       Finished(call, updated.service, partial, updated.delta, sent, FALSE)

Nothing(call, sent, raised) == Finished(call, Service, <<>>, {}, sent, raised)

\* WindowCoveringHandler.attribute_updated
CoverAttributeUpdated(ieee, attrid, value) ==
    LET call == [op |-> "cover_attribute_updated", ieee |-> ieee, attrid |-> attrid,
                 value |-> value]
        position == IF IsNumber(value) THEN I(FULL_PERCENT - value.n) ELSE None
    IN  IF value = None THEN Nothing(call, <<>>, FALSE)
        ELSE CASE attrid = ATTR_CURRENT_POSITION_LIFT_PCT ->
                     Updates(call, ieee,
                             [position |-> position, cover_position |-> position,
                              is_closed |-> B(PyEq(value, I(FULL_PERCENT))),
                              is_open |-> B(PyEq(value, I(0)))], <<>>)
               [] attrid = ATTR_CURRENT_POSITION_TILT_PCT ->
                     Updates(call, ieee, [tilt_position |-> value], <<>>)
               [] attrid = ATTR_COVERING_TYPE ->
                     Updates(call, ieee, [cover_type |-> S(CoveringTypeName(value))], <<>>)
               [] OTHER -> Nothing(call, <<>>, FALSE)

\* WindowCoveringHandler.open
CoverOpen(ieee, radio) ==
    LET call == [op |-> "open", ieee |-> ieee]
    IN  IF radio = "raises" THEN Nothing(call, <<"up_open">>, TRUE)
        ELSE Updates(call, ieee, [is_closed |-> B(FALSE)], <<"up_open">>)

\* WindowCoveringHandler.close
CoverClose(ieee, radio) ==
    LET call == [op |-> "close", ieee |-> ieee]
    IN  IF radio = "raises" THEN Nothing(call, <<"down_close">>, TRUE)
        ELSE Updates(call, ieee, [is_closed |-> B(TRUE)], <<"down_close">>)

\* WindowCoveringHandler.stop
CoverStop(ieee, radio) ==
    Nothing([op |-> "stop", ieee |-> ieee], <<"stop">>, radio = "raises")


\* set_position that sends the position as given, not inverted
SetPositionAsGiven(ieee, position, radio) ==
    LET call == [op |-> "set_position", ieee |-> ieee, position |-> position]
        number == FloatOf(position)
    IN  IF ~number.ok THEN Nothing(call, <<>>, TRUE)
        ELSE Nothing(call, <<"go_to_lift_percentage", number.n>>, radio = "raises")

\* WindowCoveringHandler.set_position: int(position) of a string that spells
\* no number is a ValueError before anything is sent
SetPosition(ieee, position, radio) ==
    LET call == [op |-> "set_position", ieee |-> ieee, position |-> position]
        number == FloatOf(position)
    IN  IF ~number.ok THEN Nothing(call, <<>>, TRUE)
        ELSE Nothing(call, <<"go_to_lift_percentage", FULL_PERCENT - number.n>>,
                     radio = "raises")

\* WindowCoveringHandler.set_tilt
SetTilt(ieee, tilt, radio) ==
    LET call == [op |-> "set_tilt", ieee |-> ieee, tilt |-> tilt]
        number == FloatOf(tilt)
    IN  IF ~number.ok THEN Nothing(call, <<>>, TRUE)
        ELSE Nothing(call, <<"go_to_tilt_percentage", number.n>>, radio = "raises")

RadioOutcomes == {"ok", "raises"}

----------------------------------------------------------------------------
(* The cover specification: a window covering, the positions it is sent to,   *)
(* the commands it is given and the attribute reports it makes.               *)

\* a lift or tilt percentage, None, and a value that is no number
CoverReports == {I(r) : r \in 0..FULL_PERCENT} \cup {None, S("closed")}

\* the positions of set_position: integers, and the text of one
CoverPositions == {I(p) : p \in 0..FULL_PERCENT} \cup {NumStr(30), S("half")}

\* what a lift report of r leaves in the state
LiftReported(r) ==
    [position |-> I(FULL_PERCENT - r), cover_position |-> I(FULL_PERCENT - r),
     is_closed |-> B(r = FULL_PERCENT), is_open |-> B(r = 0)]

\* The state of the cover before the calls: nothing reported yet, or a lift
\* report of r, followed or not by an open or a close
CoverBefore ==
    {<<>>} \cup {LiftReported(r) : r \in {0, 70, FULL_PERCENT}}
       \cup {[is_closed |-> B(closed)] @@ LiftReported(r) :
                  closed \in BOOLEAN, r \in {0, FULL_PERCENT}}

\* the reports that follow a set_position: the value sent, and others
PositionEchoes == {I(0), I(30), None}

InitCover ==
    /\ Loaded(<<>>)
    /\ \E before \in CoverBefore :
          device_state = [d \in AllDevices |-> IF d = Cover THEN before ELSE <<>>]

NextCover ==
    \/ /\ last = NoCall
       /\ \E value \in CoverReports :
             CoverAttributeUpdated(Cover, ATTR_CURRENT_POSITION_LIFT_PCT, value)
    \/ /\ last # NoCall
       /\ last.op = "set_position"
       /\ last.sent # <<>>
       /\ \E value \in PositionEchoes \cup {I(last.sent[2])} :
             CoverAttributeUpdated(Cover, ATTR_CURRENT_POSITION_LIFT_PCT, value)
    \/ /\ last = NoCall
       /\ \E attrid \in {ATTR_CURRENT_POSITION_TILT_PCT, ATTR_COVERING_TYPE, 7} :
             CoverAttributeUpdated(Cover, attrid, I(6))
    \/ /\ last = NoCall
       /\ \E radio \in RadioOutcomes : CoverOpen(Cover, radio)
    \/ /\ last = NoCall
       /\ \E radio \in RadioOutcomes : CoverClose(Cover, radio)
    \/ /\ last = NoCall
       /\ \E radio \in RadioOutcomes : CoverStop(Cover, radio)
    \/ /\ last = NoCall
       /\ \E position \in CoverPositions, radio \in RadioOutcomes :
             SetPosition(Cover, position, radio)
    \/ /\ last = NoCall
       /\ \E radio \in RadioOutcomes : SetTilt(Cover, I(50), radio)

SpecCover == InitCover /\ [][NextCover]_vars

----------------------------------------------------------------------------
(* The power handlers (src/handlers/power.py)                                 *)
(*                                                                            *)
(*  - A scaled value is a float rounded to one or three places; the model     *)
(*    keeps it as its number of thousandths.                                  *)
(*  - The handlers of the plug are on endpoint 1.                             *)

ATTR_ACTIVE_POWER == 1291              \* 0x050B
ATTR_RMS_VOLTAGE == 1285               \* 0x0505
ATTR_RMS_CURRENT == 1288               \* 0x0508
ATTR_AC_VOLTAGE_MULTIPLIER == 1536     \* 0x0600
ATTR_AC_VOLTAGE_DIVISOR == 1537
ATTR_AC_CURRENT_MULTIPLIER == 1538
ATTR_AC_CURRENT_DIVISOR == 1539
ATTR_AC_POWER_MULTIPLIER == 1540
ATTR_AC_POWER_DIVISOR == 1541
ATTR_CURRENT_SUMMATION_DELIVERED == 0
ATTR_INSTANTANEOUS_DEMAND == 1024      \* 0x0400
ATTR_MULTIPLIER == 769                 \* 0x0301
ATTR_DIVISOR == 770                    \* 0x0302
THOUSAND == 1000                       \* thousandths in one unit

\* a float, by its thousandths
Float(thousandths) == [t |-> "float", n |-> thousandths, s |-> ""]

\* Mutant: the value is taken as delivered, a 0 too
OrOneKeepsZero(value) == IF value = None THEN 1 ELSE value.n

\* value or 1
OrOne(value) == IF value = None \/ value.n = 0 THEN 1 ELSE value.n

\* data.get(name, 1) or 1
GetOrOne(data, name) == IF name \in DOMAIN data THEN OrOne(data[name]) ELSE 1

\* round(): the nearest integer to num / den. A tie goes to the even one when
\* the float is the tie exactly; the values of the specifications give no tie.
RoundHalfEven(num, den) ==
    LET q == num \div den
        r == num % den
    IN  CASE 2 * r < den -> q
          [] 2 * r > den -> q + 1
          [] OTHER -> IF q % 2 = 0 THEN q ELSE q + 1

\* round(float(value) * multiplier / divisor, 1)
RoundOne(value, multiplier, divisor) ==
    Float(RoundHalfEven(value.n * multiplier * 10, divisor) * (THOUSAND \div 10))

\* round(float(value) * multiplier / divisor, 3)
RoundThree(value, multiplier, divisor) ==
    Float(RoundHalfEven(value.n * multiplier * THOUSAND, divisor))

\* A method of a handler with fields: the fields after it, the state written,
\* what was sent to the radio, whether an exception left the method
Done(call, handler, partial) ==
    \E updated \in {IF partial = <<>>
                    THEN [service |-> Service, delta |-> {}]
                    ELSE UpdateState(Service, call.ieee, partial, now)} :
       Handled(call, [service |-> updated.service, handler |-> handler,
                      updates |-> partial, delta |-> updated.delta])

\* ElectricalMeasurementHandler.attribute_updated; a division by zero leaves
\* the method as a ZeroDivisionError
MeasurementAttributeUpdated(ieee, attrid, value) ==
    LET h == handlers[ieee]
        call(raised) == [op |-> "measurement_attribute_updated", ieee |-> ieee,
                         attrid |-> attrid, value |-> value, raised |-> raised]
    IN  IF value = None THEN Done(call(FALSE), h, <<>>)
        ELSE CASE attrid = ATTR_ACTIVE_POWER ->
                     IF h.power_divisor = 0 THEN Done(call(TRUE), h, <<>>)
                     ELSE Done(call(FALSE), h,
                               [power_1 |-> RoundOne(value, h.power_multiplier,
                                                     h.power_divisor)])
               [] attrid = ATTR_RMS_VOLTAGE ->
                     IF h.voltage_divisor = 0 THEN Done(call(TRUE), h, <<>>)
                     ELSE Done(call(FALSE), h,
                               [voltage_1 |-> RoundOne(value, h.voltage_multiplier,
                                                       h.voltage_divisor)])
               [] attrid = ATTR_RMS_CURRENT ->
                     IF h.current_divisor = 0 THEN Done(call(TRUE), h, <<>>)
                     ELSE Done(call(FALSE), h,
                               [current_1 |-> RoundThree(value, h.current_multiplier,
                                                         h.current_divisor)])
               [] attrid = ATTR_AC_POWER_MULTIPLIER ->
                     Done(call(FALSE), [h EXCEPT !.power_multiplier = OrOne(value)], <<>>)
               [] attrid = ATTR_AC_POWER_DIVISOR ->
                     Done(call(FALSE), [h EXCEPT !.power_divisor = OrOne(value)], <<>>)
               [] attrid = ATTR_AC_VOLTAGE_MULTIPLIER ->
                     Done(call(FALSE), [h EXCEPT !.voltage_multiplier = OrOne(value)], <<>>)
               [] attrid = ATTR_AC_VOLTAGE_DIVISOR ->
                     Done(call(FALSE), [h EXCEPT !.voltage_divisor = OrOne(value)], <<>>)
               [] attrid = ATTR_AC_CURRENT_MULTIPLIER ->
                     Done(call(FALSE), [h EXCEPT !.current_multiplier = OrOne(value)], <<>>)
               [] attrid = ATTR_AC_CURRENT_DIVISOR ->
                     Done(call(FALSE), [h EXCEPT !.current_divisor = OrOne(value)], <<>>)
               [] OTHER -> Done(call(FALSE), h, <<>>)

\* MeteringHandler.attribute_updated on endpoint 1
MeteringAttributeUpdated(ieee, attrid, value) ==
    LET h == handlers[ieee]
        call(raised) == [op |-> "metering_attribute_updated", ieee |-> ieee,
                         attrid |-> attrid, value |-> value, raised |-> raised]
    IN  IF value = None THEN Done(call(FALSE), h, <<>>)
        ELSE CASE attrid = ATTR_CURRENT_SUMMATION_DELIVERED ->
                     IF h.divisor = 0 THEN Done(call(TRUE), h, <<>>)
                     ELSE Done(call(FALSE), h,
                               [energy_1 |-> RoundThree(value, h.multiplier, h.divisor),
                                energy |-> RoundThree(value, h.multiplier, h.divisor)])
               [] attrid = ATTR_INSTANTANEOUS_DEMAND ->
                     IF h.divisor = 0 THEN Done(call(TRUE), h, <<>>)
                     ELSE Done(call(FALSE), h,
                               [power_demand_1 |-> RoundOne(value, h.multiplier,
                                                            h.divisor)])
               [] attrid = ATTR_MULTIPLIER ->
                     Done(call(FALSE), [h EXCEPT !.multiplier = OrOne(value)], <<>>)
               [] attrid = ATTR_DIVISOR ->
                     Done(call(FALSE), [h EXCEPT !.divisor = OrOne(value)], <<>>)
               [] OTHER -> Done(call(FALSE), h, <<>>)

\* The six scaling values as the read delivers them
Scaled(h, data) ==
    [h EXCEPT !.voltage_multiplier = GetOrOne(data, "ac_voltage_multiplier"),
              !.voltage_divisor = GetOrOne(data, "ac_voltage_divisor"),
              !.current_multiplier = GetOrOne(data, "ac_current_multiplier"),
              !.current_divisor = GetOrOne(data, "ac_current_divisor"),
              !.power_multiplier = GetOrOne(data, "ac_power_multiplier"),
              !.power_divisor = GetOrOne(data, "ac_power_divisor")]

\* ElectricalMeasurementHandler.configure after super().configure() returned.
\* read is "raises", "nothing" (no result, or a result without data) or "data"
MeasurementConfigure(ieee, read, data) ==
    LET h == handlers[ieee]
        call == [op |-> "measurement_configure", ieee |-> ieee, read |-> read,
                 data |-> data, raised |-> FALSE]
    IN  IF read = "data" /\ data # <<>>
        THEN Done(call, Scaled(h, data), <<>>)
        ELSE Done(call, h, <<>>)

----------------------------------------------------------------------------
(* The power specification: a plug whose scaling is read, or reported         *)
(* attribute by attribute, before it reports one measurement.                 *)

ReadOutcomes == {"raises", "nothing", "data"}

\* what a scaling read delivers
ScalingData ==
    { <<>>,
      [ac_power_multiplier |-> I(1), ac_power_divisor |-> I(10)],
      [ac_current_divisor |-> I(1000)],
      [ac_voltage_multiplier |-> I(1), ac_voltage_divisor |-> I(10),
       ac_current_multiplier |-> I(1), ac_current_divisor |-> I(1000),
       ac_power_multiplier |-> I(1), ac_power_divisor |-> I(10)],
      [ac_voltage_multiplier |-> I(0), ac_voltage_divisor |-> I(0),
       ac_current_multiplier |-> None, ac_current_divisor |-> I(0),
       ac_power_multiplier |-> I(2), ac_power_divisor |-> None] }

ScalingAttributes ==
    {ATTR_AC_VOLTAGE_MULTIPLIER, ATTR_AC_VOLTAGE_DIVISOR, ATTR_AC_CURRENT_MULTIPLIER,
     ATTR_AC_CURRENT_DIVISOR, ATTR_AC_POWER_MULTIPLIER, ATTR_AC_POWER_DIVISOR}

MeasurementAttributes == {ATTR_ACTIVE_POWER, ATTR_RMS_VOLTAGE, ATTR_RMS_CURRENT}

ScalingValues == {I(0), I(10), None}

RawValues == {I(0), I(2345), I(230), I(455), None}

\* no measurement has been reported yet
Unmeasured == device_state[Plug] = <<>>

InitPower ==
    /\ Loaded(<<>>)
    /\ device_state = [d \in AllDevices |-> <<>>]

NextPower ==
    \/ /\ Unmeasured
       /\ \E read \in ReadOutcomes, data \in ScalingData :
             /\ read = "data" \/ data = <<>>
             /\ MeasurementConfigure(Plug, read, data)
    \/ /\ Unmeasured
       /\ \E attrid \in ScalingAttributes, value \in ScalingValues :
             MeasurementAttributeUpdated(Plug, attrid, value)
    \/ /\ Unmeasured
       /\ \E attrid \in {ATTR_MULTIPLIER, ATTR_DIVISOR}, value \in ScalingValues :
             MeteringAttributeUpdated(Plug, attrid, value)
    \/ /\ Unmeasured
       /\ \E attrid \in MeasurementAttributes \cup {7}, value \in RawValues :
             MeasurementAttributeUpdated(Plug, attrid, value)
    \/ /\ Unmeasured
       /\ \E attrid \in {ATTR_CURRENT_SUMMATION_DELIVERED, ATTR_INSTANTANEOUS_DEMAND, 7},
             value \in RawValues :
             MeteringAttributeUpdated(Plug, attrid, value)

SpecPower == InitPower /\ [][NextPower]_vars

----------------------------------------------------------------------------
(* The zone report specification: a sensor whose handler learns its zone      *)
(* type once and is given zone statuses as commands and as attribute reports. *)

\* clear, alarm1, alarm1 with tamper, battery-low, trouble
ReportedStatuses == {0, 1, 5, 8, 64}

\* the arguments of cluster_command: a Zone Status Change Notification in
\* full, the status alone, and none
ZoneCommandArgs ==
    {<<status, 0, 1, 0>> : status \in ReportedStatuses} \cup {<<0>>, <<1>>, <<>>}

NextZoneReport ==
    \/ /\ handlers[SensorA].zone_type = NoZoneType
       /\ \E value \in ZoneTypeValues : AttributeUpdated(SensorA, ATTR_ZONE_TYPE, value)
    \/ \E args \in ZoneCommandArgs : ClusterCommand(SensorA, 1, 0, args)
    \/ \E command_id \in {1, 2} : ClusterCommand(SensorA, 1, command_id, <<21, 0>>)
    \/ \E status \in ReportedStatuses :
          AttributeUpdated(SensorA, ATTR_ZONE_STATUS, status)
    \/ \E attrid \in {ATTR_ZONE_STATE, ATTR_ZONE_ID, 16} : AttributeUpdated(SensorA, attrid, 1)

SpecZoneReport == InitZone /\ [][NextZoneReport]_vars

----------------------------------------------------------------------------
(* Configuring the IAS Zone handler (src/handlers/security.py, configure)     *)
(*                                                                            *)
(*  - Each await on the radio returns or raises; looking the coordinator up   *)
(*    in the application finds it or raises.                                  *)
(*  - The call record keeps the radio operations in the order they were       *)
(*    started, and the value configure returned.                              *)

CoordinatorIeee == "00:0d:6f:00"

\* the lifecycle of a handler after a configure that returned result
Lifecycle(result) == IF result THEN "ACTIVE" ELSE "DEGRADED"

\* if self.ATTR_ZONE_TYPE in result[0]: self._zone_type = result[0][...]
ZoneTypeRead(handler, read, data) ==
    IF read = "data" /\ data # <<>> /\ ATTR_ZONE_TYPE \in DOMAIN data
    THEN [handler EXCEPT !.zone_type = data[ATTR_ZONE_TYPE]]
    ELSE handler

\* a configure in which a failed write of the CIE address fails the whole
ConfigureFailsOnWrite(ieee, bind, coordinator, write, read, data) ==
    LET h == handlers[ieee]
        call(sent, result) ==
            [op |-> "configure", ieee |-> ieee, bind |-> bind,
             coordinator |-> coordinator, write |-> write, read |-> read,
             data |-> data, sent |-> sent, result |-> result, raised |-> FALSE]
        enrol == IF coordinator = "found"
                 THEN << <<"write_attributes", "cie_addr", CoordinatorIeee>> >>
                 ELSE <<>>
    IN  IF bind = "raises" \/ coordinator # "found" \/ write = "raises"
        THEN Done(call(<< <<"bind">> >> \o (IF bind = "raises" THEN <<>> ELSE enrol), FALSE),
                  [h EXCEPT !.lifecycle = Lifecycle(FALSE)], <<>>)
        ELSE Done(call(<< <<"bind">> >> \o enrol
                          \o << <<"read_attributes", ATTR_ZONE_TYPE, ATTR_ZONE_STATE>> >>,
                       TRUE),
                  [ZoneTypeRead(h, read, data) EXCEPT !.lifecycle = Lifecycle(TRUE)], <<>>)

\* a configure that reads the zone type before it writes the CIE address
ConfigureReadsFirst(ieee, bind, coordinator, write, read, data) ==
    LET h == handlers[ieee]
        call(sent, result) ==
            [op |-> "configure", ieee |-> ieee, bind |-> bind,
             coordinator |-> coordinator, write |-> write, read |-> read,
             data |-> data, sent |-> sent, result |-> result, raised |-> FALSE]
        enrol == IF coordinator = "found"
                 THEN << <<"write_attributes", "cie_addr", CoordinatorIeee>> >>
                 ELSE <<>>
    IN  IF bind = "raises"
        THEN Done(call(<< <<"bind">> >>, FALSE),
                  [h EXCEPT !.lifecycle = Lifecycle(FALSE)], <<>>)
        ELSE Done(call(<< <<"bind">> >>
                          \o << <<"read_attributes", ATTR_ZONE_TYPE, ATTR_ZONE_STATE>> >>
                          \o enrol,
                       TRUE),
                  [ZoneTypeRead(h, read, data) EXCEPT !.lifecycle = Lifecycle(TRUE)], <<>>)

\* IASZoneHandler.configure
Configure(ieee, bind, coordinator, write, read, data) ==
    LET h == handlers[ieee]
        call(sent, result) ==
            [op |-> "configure", ieee |-> ieee, bind |-> bind,
             coordinator |-> coordinator, write |-> write, read |-> read,
             data |-> data, sent |-> sent, result |-> result, raised |-> FALSE]
        enrol == IF coordinator = "found"
                 THEN << <<"write_attributes", "cie_addr", CoordinatorIeee>> >>
                 ELSE <<>>
    IN  IF bind = "raises"
        THEN Done(call(<< <<"bind">> >>, FALSE),
                  [h EXCEPT !.lifecycle = Lifecycle(FALSE)], <<>>)
        ELSE Done(call(<< <<"bind">> >> \o enrol
                          \o << <<"read_attributes", ATTR_ZONE_TYPE, ATTR_ZONE_STATE>> >>,
                       TRUE),
                  [ZoneTypeRead(h, read, data) EXCEPT !.lifecycle = Lifecycle(TRUE)], <<>>)

----------------------------------------------------------------------------
(* The configure specification: the sensor and the plug are configured on     *)
(* every reconnect, with every outcome of the radio, and the sensor sends     *)
(* zone statuses in between.                                                  *)

\* what the read of zone type and zone state delivers
ZoneData ==
    { <<>>,
      (ATTR_ZONE_STATE :> 1),
      (ATTR_ZONE_TYPE :> 21) @@ (ATTR_ZONE_STATE :> 1),
      (ATTR_ZONE_TYPE :> 13) @@ (ATTR_ZONE_STATE :> 0) }

NextConfigure ==
    \/ \E bind, write \in RadioOutcomes, coordinator \in {"found", "missing"},
          read \in ReadOutcomes, data \in ZoneData :
          /\ read = "data" \/ data = <<>>
          /\ Configure(SensorA, bind, coordinator, write, read, data)
    \/ \E args \in {<<1>>, <<0>>} : ClusterCommand(SensorA, 1, 0, args)
    \/ \E read \in ReadOutcomes, data \in ScalingData :
          /\ read = "data" \/ data = <<>>
          /\ MeasurementConfigure(Plug, read, data)

SpecConfigure == InitZone /\ [][NextConfigure]_vars

----------------------------------------------------------------------------
(* The LightLink handler (src/handlers/lightlink.py)                          *)
(*                                                                            *)
(*  - The call record keeps what was sent to the bulb and asked of the        *)
(*    coordinator, in order, the groups the coordinator joined, and the       *)
(*    value configure returned.                                               *)

DEFAULT_GROUP == 0               \* add_to_group(0x0000, name="Lightlink Group")

\* the groups of a response: a default response (it has a command_id) has
\* none, a response of another form has none either
GroupsOf(query, records) == IF query = "groups" THEN records ELSE <<>>

\* coordinator.add_to_group for each group in turn, each in its own try
AddToGroups(groups) == [i \in 1..Len(groups) |-> <<"add_to_group", groups[i]>>]

\* a configure that joins the default group as well as the groups returned
LightLinkConfigureAddsDefault(ieee, coordinator, query, records, failing) ==
    LET call(sent, joined, result) ==
            [op |-> "lightlink_configure", ieee |-> ieee, coordinator |-> coordinator,
             query |-> query, records |-> records, failing |-> failing,
             joined |-> joined, result |-> result]
        asked == << <<"get_group_identifiers", 0>> >>
        groups == GroupsOf(query, records) \o <<DEFAULT_GROUP>>
    IN  IF coordinator # "found" THEN Nothing(call(<<>>, {}, FALSE), <<>>, FALSE)
        ELSE IF query \in {"timeout", "raises"}
        THEN Nothing(call(asked, {}, FALSE), asked, FALSE)
        ELSE Nothing(call(asked \o AddToGroups(groups),
                          {groups[i] : i \in 1..Len(groups)} \ failing, TRUE),
                     asked \o AddToGroups(groups), FALSE)

\* LightLinkHandler.configure
LightLinkConfigure(ieee, coordinator, query, records, failing) ==
    LET call(sent, joined, result) ==
            [op |-> "lightlink_configure", ieee |-> ieee, coordinator |-> coordinator,
             query |-> query, records |-> records, failing |-> failing,
             joined |-> joined, result |-> result]
        asked == << <<"get_group_identifiers", 0>> >>
        returned == GroupsOf(query, records)
        groups == IF returned # <<>> THEN returned ELSE <<DEFAULT_GROUP>>
    IN  IF coordinator # "found" THEN Nothing(call(<<>>, {}, FALSE), <<>>, FALSE)
        ELSE IF query \in {"timeout", "raises"}
        THEN Nothing(call(asked, {}, FALSE), asked, FALSE)
        ELSE Nothing(call(asked \o AddToGroups(groups),
                          {groups[i] : i \in 1..Len(groups)} \ failing, TRUE),
                     asked \o AddToGroups(groups), FALSE)

\* LightLinkHandler.attribute_updated: it only logs
LightLinkAttributeUpdated(ieee, attrid, value) ==
    Nothing([op |-> "lightlink_attribute_updated", ieee |-> ieee, attrid |-> attrid,
             value |-> value], <<>>, FALSE)

----------------------------------------------------------------------------
(* The LightLink specification: a bulb is configured with every answer to     *)
(* the group query and every outcome of joining.                              *)

MaxGroups == 2                   \* group identifiers in a response

GroupIds == {DEFAULT_GROUP, 4097, 4098}

QueryOutcomes == {"timeout", "raises", "default_response", "groups", "other"}

NextLightLink ==
    \/ \E coordinator \in {"found", "missing"}, query \in QueryOutcomes,
          records \in SeqsUpTo(GroupIds, MaxGroups), failing \in SUBSET GroupIds :
          /\ query = "groups" \/ records = <<>>
          /\ LightLinkConfigure(Light, coordinator, query, records, failing)
    \/ \E value \in {I(1), None} : LightLinkAttributeUpdated(Light, 0, value)

SpecLightLink == InitZone /\ [][NextLightLink]_vars

----------------------------------------------------------------------------
(* The link-quality intake (src/handlers/zones_handler.py)                    *)
(*                                                                            *)
(*  - zone_manager.record_link_quality is code outside this file: it returns  *)
(*    or it raises.                                                           *)
(*  - The call record keeps what was recorded, how many times the original    *)
(*    callback was invoked, with what, and what the wrapper returned.         *)

LQI_MAX == 255
RSSI_FLOOR == -100
RSSI_SPAN == 70

\* int(x) of the quotient n / d, d > 0: towards zero
Truncated(n, d) == IF n >= 0 THEN n \div d ELSE -((-n) \div d)

\* _lqi_to_rssi: int(-100 + (lqi / 255) * 70)
LqiToRssi(lqi) == Truncated(RSSI_FLOOR * LQI_MAX + lqi * RSSI_SPAN, LQI_MAX)

\* _rssi_to_lqi: max(0, min(255, int((rssi + 100) * 255 / 70)))
RssiToLqi(rssi) ==
    LET lqi == Truncated((rssi - RSSI_FLOOR) * LQI_MAX, RSSI_SPAN)
    IN  IF lqi < 0 THEN 0 ELSE IF lqi > LQI_MAX THEN LQI_MAX ELSE lqi

\* an attribute the object does not have
Absent == [t |-> "absent", n |-> 0, s |-> ""]

\* value or 0
OrZero(value) == IF value.t # "str" /\ value.n = 0 THEN I(0) ELSE value

\* ZonesMessageHandler.handle_message: [handler, recorded, raised]; device_ieee
\* is None for a device without ieee, coordinator is FALSE without an
\* application controller
HandleMessage(handler, device_ieee, coordinator, rssi, lqi, recording) ==
    LET counted == [handler EXCEPT !.message_count = @ + 1]
        silent == [handler |-> counted, recorded |-> <<>>, raised |-> FALSE]
        failed == [handler |-> counted, recorded |-> <<>>, raised |-> TRUE]
        r == IF rssi = None THEN I(LqiToRssi(lqi.n)) ELSE rssi
        l == IF lqi = None THEN I(RssiToLqi(rssi.n)) ELSE lqi
        record == [source_ieee |-> CoordinatorIeee, target_ieee |-> device_ieee,
                   rssi |-> OrZero(r), lqi |-> OrZero(l)]
    IN  IF rssi = None /\ lqi = None THEN silent
        ELSE IF device_ieee = "None" \/ ~coordinator THEN silent
        ELSE IF (rssi = None /\ lqi.t = "str") \/ (lqi = None /\ rssi.t = "str")
        THEN failed                         \* TypeError in the conversion
        ELSE IF recording = "raises"
        THEN [handler |-> counted, recorded |-> <<record>>, raised |-> TRUE]
        ELSE [handler |-> [counted EXCEPT !.rssi_capture_count = @ + 1],
              recorded |-> <<record>>, raised |-> FALSE]

\* The end of a wrapper: an exception of the intake leaves the wrapper before
\* the original callback is called; otherwise the original is called with the
\* arguments the wrapper was given and its result is returned
Wrapped(op, key, arguments, recording, out) ==
    /\ handlers' = [handlers EXCEPT ![key] = out.handler]
    /\ last' = [op |-> op, arguments |-> arguments, recording |-> recording,
                recorded |-> out.recorded, raised |-> out.raised,
                original_calls |-> IF out.raised THEN <<>> ELSE <<arguments>>,
                returned |-> IF out.raised THEN "nothing" ELSE "original result"]
    /\ UNCHANGED <<rules, source_index, cooldowns, trace_log, stats, now, devices,
                   device_state, tasks, file, next_id, appended, fast_stats,
                   last_seen, cache_dirty>>

\* wrapped_packet_received of setup_rssi_listener; packet.src is None or the
\* address of a device, packet.coordinator whether the zone manager has an
\* application controller
WrappedPacketReceived(packet, recording) ==
    LET h == handlers[PacketIntake]
        passed == [handler |-> h, recorded |-> <<>>, raised |-> FALSE]
    IN  IF packet.src # "None" /\ (packet.rssi # None \/ packet.lqi # None)
           /\ packet.src \in devices
        THEN Wrapped("packet_received", PacketIntake, packet, recording,
                     HandleMessage(h, packet.src, packet.coordinator, packet.rssi,
                                   packet.lqi, recording))
        ELSE Wrapped("packet_received", PacketIntake, packet, recording, passed)

\* wrapped_handler of patch_message_handler: rssi and lqi from the keyword
\* arguments, else from the device when it has them
WrappedHandler(message, recording) ==
    LET h == handlers[MessageIntake]
        rssi == IF message.rssi = None /\ message.device_rssi # Absent
                THEN message.device_rssi ELSE message.rssi
        lqi == IF message.lqi = None /\ message.device_lqi # Absent
               THEN message.device_lqi ELSE message.lqi
    IN  Wrapped("handle_message", MessageIntake, message, recording,
                HandleMessage(h, message.device, message.coordinator, rssi, lqi,
                              recording))

----------------------------------------------------------------------------
(* The intake specification: packets and messages with and without link       *)
(* quality, from known and unknown devices, recorded or failing to record.    *)

MaxPackets == 2                  \* messages each intake counts

Packets ==
    [src : {SensorA, Gone, "None"}, coordinator : BOOLEAN,
     rssi : {None, I(-60), I(0)}, lqi : {None, I(200), S("high")}]

Messages ==
    [device : {SensorA, "None"}, coordinator : BOOLEAN, rssi : {None, I(-60)},
     lqi : {None, I(200)}, device_rssi : {Absent, I(-70)},
     device_lqi : {Absent, I(120)}]

NextIntake ==
    \/ /\ handlers[PacketIntake].message_count < MaxPackets
       /\ \E packet \in Packets, recording \in RadioOutcomes :
             WrappedPacketReceived(packet, recording)
    \/ /\ handlers[MessageIntake].message_count < MaxPackets
       /\ \E message \in Messages, recording \in RadioOutcomes :
             WrappedHandler(message, recording)

SpecIntake == InitZone /\ [][NextIntake]_vars

----------------------------------------------------------------------------
(* The target specification: rules whose targets are missing, have no         *)
(* send_command, are unavailable or lack the capability of the command, and   *)
(* a target that joins the registry later.                                    *)

MaxTargetEvals == 3     \* evaluate() calls
MaxTargetTime == 2      \* seconds the clock advances

TargetRule(id, target_ieee, command, cooldown) ==
    [id |-> id, enabled |-> TRUE, source_ieee |-> SensorA,
     conditions |-> <<Cond("occupancy", "eq", B(TRUE))>>,
     target_ieee |-> target_ieee, action |-> Action(command), cooldown |-> cooldown]

TargetRules ==
    << TargetRule(1, Removed, "on", 2),
       TargetRule(2, Stub, "open", 2),
       TargetRule(3, Light, "open", 2),
       TargetRule(4, Plug, "brightness", 1),
       TargetRule(5, Light, "on", 0) >>

TargetDeltas == { [occupancy |-> B(TRUE)], [occupancy |-> B(FALSE)] }

\* The registry the engine is handed gains a device; the engine's devices are
\* looked up at every call of evaluate()
DeviceJoins(ieee) ==
    /\ ieee \notin devices
    /\ devices' = devices \cup {ieee}
    /\ UNCHANGED <<rules, source_index, cooldowns, trace_log, stats, now, device_state,
                   tasks, file, next_id, last, appended>>
    /\ UNCHANGED service_vars

InitTarget ==
    /\ Loaded(TargetRules)
    /\ device_state = [d \in AllDevices |-> <<>>]

NextTarget ==
    \/ \E changed_data \in TargetDeltas : Evaluate(SensorA, changed_data, MaxTargetEvals)
    \/ Tick(StartTime + MaxTargetTime)
    \/ DeviceJoins(Removed)

SpecTarget == InitTarget /\ [][NextTarget]_vars

----------------------------------------------------------------------------
(* The attribute scan: Report Attributes frames made of whole records, one  *)
(* record of every type of the size table, of both string types and of      *)
(* types outside the table, followed by a record for attribute 0x0000. The  *)
(* data bytes of the longer records read as a boolean record for attribute  *)
(* 0x0000 with value 1, so a scan that skips by a wrong size decodes them.  *)

MaxScanRecords == 2     \* records before the record for attribute 0x0000

FixedTypes == {0, 16, 24, 25, 26, 27, 32, 33, 34, 35, 40, 41, 43, 48, 49, 57, 58}
StringTypes == {65, 66}                  \* 0x41 0x42
UnknownTypes == {37, 42, 72, 240}        \* uint48, int24, array, EUI64

\* the first n bytes of a boolean record for attribute 0x0000, value 1
Embedded(n) == SubSeq(<<0, 0, 16, 1, 0, 0, 0, 0>>, 1, n)

\* the bytes a value of a fixed type takes on the wire
DataBytes(data_type) ==
    CASE data_type = 0 -> 0
      [] data_type \in {16, 24, 32, 40, 48} -> 1
      [] data_type \in {25, 33, 41, 49, 57} -> 2
      [] data_type \in {26, 34} -> 3
      [] data_type \in {27, 35, 43, 58} -> 4

\* a record for attribute 0x0001 of the type, with the data bytes the type has
ScanRecord(data_type) ==
    <<1, 0, data_type>> \o
    CASE data_type \in FixedTypes -> Embedded(DataBytes(data_type))
      [] data_type = 65 -> <<0>>                     \* an empty octet string
      [] data_type = 66 -> <<4>> \o Embedded(4)      \* a string of four characters
      [] data_type = 37 -> Embedded(6)
      [] data_type = 42 -> Embedded(3)
      [] data_type = 72 -> <<16, 1, 0, 1>>           \* one boolean element
      [] OTHER -> Embedded(8)

ScanRecords == {ScanRecord(t) : t \in FixedTypes \cup StringTypes \cup UnknownTypes}

\* the records that come first in the longer frames: a string and a 48-bit
\* value
LeadingRecords == {ScanRecord(66), ScanRecord(37)}

TargetRecords == { <<0, 0, 16, 0>>, <<0, 0, 16, 1>>, <<0, 0, 24, 0>>, <<0, 0, 24, 3>> }

\* the record for attribute 0x0000 alone, and after a record of every type,
\* itself after up to MaxScanRecords - 1 leading records
ScanBefore ==
    {<<>>} \cup {q \o <<x>> : q \in SeqsUpTo(LeadingRecords, MaxScanRecords - 1),
                            x \in ScanRecords}

ScanReports ==
    { [message |-> <<24, 1, CMD_REPORT_ATTRIBUTES>> \o Flatten(q) \o r,
       before |-> q, value |-> r[4]] :
        q \in ScanBefore, r \in TargetRecords }

NextScan ==
    \/ /\ last = NoCall
       /\ \E report \in ScanReports, cluster \in {CLUSTER_OCCUPANCY, CLUSTER_ONOFF} :
             ProcessFrame(SensorA, PROFILE_HA, cluster, report.message)
    \/ Tick(StartTime + MaxFastTime)

SpecScan == InitFastPath /\ [][NextScan]_vars

----------------------------------------------------------------------------
(* The Tuya specification: frames of whole DP records. Command 0x02 carries *)
(* every sequence of records, the other commands (0x01, 0x06, and 0x24,     *)
(* which carries no DPs) the sequences of at most one record.               *)

MaxDps == 2     \* DP records in a frame of command 0x02

\* the DP records of the fast-path specification, and DP 1 as enum 1 and as
\* bool 0
PresenceDps == DpRecords \cup { <<1, 4, 0, 1, 1>>, <<1, 1, 0, 1, 0>> }

\* frame control, sequence number, command, status, 16-bit transaction, DPs
TuyaReport(command, dps) ==
    [command |-> command, dps |-> dps,
     message |-> <<9, 1, command, 0, 0, 1>> \o Flatten(dps)]

TuyaReports ==
    {TuyaReport(2, q) : q \in SeqsUpTo(PresenceDps, MaxDps)}
    \cup {TuyaReport(c, q) : c \in {1, 6, 36}, q \in SeqsUpTo(PresenceDps, 1)}

NextTuya ==
    \/ /\ last = NoCall
       /\ \E report \in TuyaReports :
             ProcessFrame(SensorA, PROFILE_HA, CLUSTER_TUYA, report.message)
    \/ Tick(StartTime + MaxFastTime)

SpecTuya == InitFastPath /\ [][NextTuya]_vars

----------------------------------------------------------------------------
(* Aggressive reporting (src/modules/zone_device_config.py)                  *)
(*                                                                            *)
(*  - A listed device is the record of what the call reads of it: its ieee,   *)
(*    whether it has a zigpy device, what the node descriptor says, its       *)
(*    endpoints in dict order with their input and output clusters, and the   *)
(*    clusters whose bind() or configure_reporting() raises.                  *)
(*  - The call writes nothing of the service: what it does is the radio       *)
(*    calls it awaits, kept in the call record in the order made, and the     *)
(*    counts it returns.                                                      *)

AGGRESSIVE_MIN_INTERVAL == 1
AGGRESSIVE_MAX_INTERVAL == 5

\* cluster -> attribute, in dict order
TELEMETRY_CLUSTERS ==
    << [cluster |-> 2820, attr |-> 1291],      \* 0x0B04: 0x050B
       [cluster |-> 2821, attr |-> 284] >>     \* 0x0B05: 0x011C

FUNCTIONAL_CLUSTERS ==
    << [cluster |-> 6, attr |-> 0],            \* 0x0006: 0x0000
       [cluster |-> 8, attr |-> 0],            \* 0x0008: 0x0000
       [cluster |-> 768, attr |-> 3],          \* 0x0300: 0x0003
       [cluster |-> 0, attr |-> 1],            \* 0x0000: 0x0001
       [cluster |-> 3, attr |-> 0] >>          \* 0x0003: 0x0000

\* the (endpoint, cluster) pairs the two loops of _apply_config reach: every
\* endpoint but 0, every cluster of the map the endpoint has
Attempts(endpoints, cluster_map) ==
    LET on(endpoint) ==
            IF endpoint.ep_id = 0 THEN <<>>
            ELSE LET has(c) == c.cluster \in endpoint.in_clusters \cup endpoint.out_clusters
                     found == SelectSeq(cluster_map, has)
                 IN  [i \in 1..Len(found) |->
                         [ep_id |-> endpoint.ep_id, cluster |-> found[i].cluster,
                          attr |-> found[i].attr]]
    IN  Flatten([e \in 1..Len(endpoints) |-> on(endpoints[e])])

BindCall(a) == <<"bind", a.ep_id, a.cluster>>
ReportingCall(a) ==
    <<"configure_reporting", a.ep_id, a.cluster, a.attr,
      AGGRESSIVE_MIN_INTERVAL, AGGRESSIVE_MAX_INTERVAL, 0>>

\* _apply_config from the i-th pair on
RECURSIVE ApplyFrom(_, _, _, _, _, _)
ApplyFrom(zigpy_dev, attempts, i, stop_on_first, success, sent) ==
    IF i > Len(attempts) THEN [success |-> success, sent |-> sent]
    ELSE LET a == attempts[i]
         IN  IF a.cluster \in zigpy_dev.bind_raises
             THEN ApplyFrom(zigpy_dev, attempts, i + 1, stop_on_first, success,
                            Append(sent, BindCall(a)))
             ELSE IF a.cluster \in zigpy_dev.configure_raises
             THEN ApplyFrom(zigpy_dev, attempts, i + 1, stop_on_first, success,
                            sent \o <<BindCall(a), ReportingCall(a)>>)
             ELSE IF stop_on_first
             THEN [success |-> TRUE, sent |-> sent \o <<BindCall(a), ReportingCall(a)>>]
             ELSE ApplyFrom(zigpy_dev, attempts, i + 1, stop_on_first, TRUE,
                            sent \o <<BindCall(a), ReportingCall(a)>>)

ApplyConfig(zigpy_dev, cluster_map, stop_on_first) ==
    ApplyFrom(zigpy_dev, Attempts(zigpy_dev.endpoints, cluster_map), 1,
              stop_on_first, FALSE, <<>>)

\* _configure_aggressive_reporting
ConfigureAggressiveReporting(zigpy_dev) ==
    LET telemetry == ApplyConfig(zigpy_dev, TELEMETRY_CLUSTERS, TRUE)
        fallback == ApplyConfig(zigpy_dev, FUNCTIONAL_CLUSTERS, FALSE)
    IN  IF telemetry.success THEN telemetry
        ELSE [success |-> fallback.success, sent |-> telemetry.sent \o fallback.sent]

\* the radio calls of one device, each with the device's ieee
Tagged(ieee, sent) == [i \in 1..Len(sent) |-> [ieee |-> ieee, call |-> sent[i]]]

\* a loop whose try encloses the for: the first error ends the call
RECURSIVE ReportingLoopStopsOnError(_, _, _, _, _)
ReportingLoopStopsOnError(registry, device_ieees, i, counts, sent) ==
    IF i > Len(device_ieees) THEN [result |-> counts, sent |-> sent]
    ELSE LET device == device_ieees[i]
             is_end_device == device.zigpy /\ device.node_desc = "end_device"
         IN  IF device.ieee \notin registry
             THEN ReportingLoopStopsOnError(registry, device_ieees, i + 1, counts, sent)
             ELSE IF is_end_device
             THEN ReportingLoopStopsOnError(registry, device_ieees, i + 1,
                                            [counts EXCEPT !.skipped = @ + 1], sent)
             ELSE IF ~device.zigpy
             THEN [result |-> [counts EXCEPT !.failed = @ + 1], sent |-> sent]
             ELSE LET out == ConfigureAggressiveReporting(device)
                  IN  ReportingLoopStopsOnError(registry, device_ieees, i + 1,
                                    IF out.success
                                    THEN [counts EXCEPT !.configured = @ + 1]
                                    ELSE [counts EXCEPT !.failed = @ + 1],
                                    sent \o Tagged(device.ieee, out.sent))

\* the loop of configure_zone_device_reporting from the i-th listed device;
\* a device without zigpy device (zigpy_dev is None) has no node_desc and
\* raises when its endpoints are read
RECURSIVE ReportingLoop(_, _, _, _, _)
ReportingLoop(registry, device_ieees, i, counts, sent) ==
    IF i > Len(device_ieees) THEN [result |-> counts, sent |-> sent]
    ELSE LET device == device_ieees[i]
             is_end_device == device.zigpy /\ device.node_desc = "end_device"
         IN  IF device.ieee \notin registry
             THEN ReportingLoop(registry, device_ieees, i + 1, counts, sent)
             ELSE IF is_end_device
             THEN ReportingLoop(registry, device_ieees, i + 1,
                                [counts EXCEPT !.skipped = @ + 1], sent)
             ELSE IF ~device.zigpy
             THEN ReportingLoop(registry, device_ieees, i + 1,
                                [counts EXCEPT !.failed = @ + 1], sent)
             ELSE LET out == ConfigureAggressiveReporting(device)
                  IN  ReportingLoop(registry, device_ieees, i + 1,
                                    IF out.success
                                    THEN [counts EXCEPT !.configured = @ + 1]
                                    ELSE [counts EXCEPT !.failed = @ + 1],
                                    sent \o Tagged(device.ieee, out.sent))

\* configure_zone_device_reporting(zigbee_service, device_ieees)
ConfigureZoneDeviceReporting(device_ieees) ==
    \E out \in {ReportingLoop(devices, device_ieees, 1,
                              [configured |-> 0, skipped |-> 0, failed |-> 0], <<>>)} :
        /\ last' = [op |-> "configure_zone_device_reporting",
                    device_ieees |-> device_ieees,
                    sent |-> out.sent, result |-> out.result]
        /\ UNCHANGED <<rules, source_index, cooldowns, trace_log, stats, now, devices,
                       device_state, tasks, file, next_id, appended>>
        /\ UNCHANGED service_vars

----------------------------------------------------------------------------
(* The reporting specification: one call for a list of devices: every device *)
(* on its own, and every list of the devices of a short selection.           *)

MaxListed == 3      \* devices in a list of selected devices

Endpoint(ep_id, in_clusters, out_clusters) ==
    [ep_id |-> ep_id, in_clusters |-> in_clusters, out_clusters |-> out_clusters]

\* the clusters of endpoint 1: none, telemetry only, functional only, both
ClusterChoices ==
    { {}, {2820}, {2821}, {2820, 2821}, {6, 8, 768}, {0, 3, 6}, {2820, 6, 8},
      {2821, 6}, {2820, 2821, 6, 8, 768, 0, 3} }

\* the clusters whose bind or configure_reporting fails
RaisingChoices == { {}, {2820}, {2820, 2821}, {6}, {2821, 8} }

ListedDevice(ieee, zigpy, node_desc, clusters, bind_raises, configure_raises) ==
    [ieee |-> ieee, zigpy |-> zigpy, node_desc |-> node_desc,
     endpoints |-> << Endpoint(0, {2820, 6}, {}),
                      Endpoint(1, clusters \ {8}, clusters \cap {8}),
                      Endpoint(2, clusters \cap {6, 2821}, {}) >>,
     bind_raises |-> bind_raises, configure_raises |-> configure_raises]

ListedDevices ==
    { ListedDevice(ieee, TRUE, node_desc, clusters, bind_raises, configure_raises) :
        ieee \in {Light, Removed}, node_desc \in {"router", "end_device", "none"},
        clusters \in ClusterChoices, bind_raises \in RaisingChoices,
        configure_raises \in {{}, {2820}, {6}} }
    \cup { ListedDevice(ieee, FALSE, "none", {}, {}, {}) : ieee \in {Plug, Removed} }

\* a plug on telemetry, a plug whose telemetry fails, a battery sensor, a
\* device without zigpy device, a light, and a device outside the registry
SelectedDevices ==
    { ListedDevice(Plug, TRUE, "router", {2820, 6, 8}, {}, {}),
      ListedDevice(Plug, TRUE, "router", {2820, 6, 8}, {2820}, {}),
      ListedDevice(SensorA, TRUE, "end_device", {2821, 6}, {}, {}),
      ListedDevice(Stub, FALSE, "none", {}, {}, {}),
      ListedDevice(Light, TRUE, "none", {6, 8, 768}, {}, {6}),
      ListedDevice(Removed, TRUE, "router", {2820}, {}, {}) }

DeviceLists ==
    {<<device>> : device \in ListedDevices} \cup SeqsUpTo(SelectedDevices, MaxListed)

NextReporting ==
    /\ last = NoCall
    /\ \E device_ieees \in DeviceLists : ConfigureZoneDeviceReporting(device_ieees)

SpecReporting == InitZone /\ [][NextReporting]_vars

----------------------------------------------------------------------------
(* The index specification: create, update and delete requests on two        *)
(* sources, then evaluate() calls from both, on an engine that starts empty. *)

MaxIndexIds == 2      \* rules created
MaxIndexEvals == 1    \* evaluate() calls that pass the fast exit

IndexCalls ==
    { [source_ieee |-> SensorA, changed_data |-> [occupancy |-> B(TRUE)]],
      [source_ieee |-> SensorB, changed_data |-> [illuminance |-> I(5)]] }

IndexRequests ==
    { SetField(Base(SensorA, Light, "on"), "conditions", List(<<Occupied>>)),
      SetField(Base(SensorB, Plug, "off"), "conditions", List(Conds(1))) }

IndexUpdates ==
    { [enabled |-> FALSE, command |-> "off"],
      [conditions |-> List(Conds(2)), command |-> "explode"] }

\* The requests come first and the evaluate() calls after them
NextIndex ==
    \/ /\ stats.evaluations = 0
       /\ \E rule_data \in IndexRequests : AddRule(rule_data, "saved", MaxIndexIds)
    \/ /\ stats.evaluations = 0
       /\ \E rule_id \in 0..next_id, updates \in IndexUpdates :
             UpdateRule(rule_id, updates, "saved")
    \/ /\ stats.evaluations = 0
       /\ \E rule_id \in 0..next_id : DeleteRule(rule_id, "saved")
    \/ \E call \in IndexCalls :
          Evaluate(call.source_ieee, call.changed_data, MaxIndexEvals)

SpecIndex == InitCrud /\ [][NextIndex]_vars

----------------------------------------------------------------------------
(* The lift specification: a window covering that starts with an empty state *)
(* and takes lift reports and open, close and set_position commands in any   *)
(* order.                                                                    *)

LiftReports == {I(0), I(30), I(70), I(FULL_PERCENT), None}

LiftPositions == {I(0), I(FULL_PERCENT)}

NextLift ==
    \/ \E value \in LiftReports :
          CoverAttributeUpdated(Cover, ATTR_CURRENT_POSITION_LIFT_PCT, value)
    \/ \E radio \in RadioOutcomes : CoverOpen(Cover, radio)
    \/ \E radio \in RadioOutcomes : CoverClose(Cover, radio)
    \/ \E position \in LiftPositions, radio \in RadioOutcomes :
          SetPosition(Cover, position, radio)

SpecLift == InitZone /\ [][NextLift]_vars

----------------------------------------------------------------------------
(* ZNP touchlink (src/modules/touchlink.py)                                   *)
(*                                                                            *)
(*  - The manager is the entry "touchlink" of handlers: its two flags, and    *)
(*    the position of the operation in flight with its local variables.       *)
(*  - One step is one await: a call of _znp_set_channel_interpan, of          *)
(*    _znp_send_interpan_broadcast or of _znp_restore_channel_interpan.       *)
(*  - _znp_interpan_ctl returns, raises before the frame is written, or is    *)
(*    cancelled in the sleep that follows the write.                          *)
(*  - sent lists the sub-commands _znp_interpan_ctl was called with.          *)

Touchlink == "touchlink"

INTERPAN_CLEAR == 0             \* AF.InterPanCtl sub-commands
INTERPAN_SET_CHANNEL == 1
INTERPAN_REGISTER == 2
FIRST_CHANNEL == 11             \* range(11, 27)

MaxScanChannels == 2            \* channels of a scan of all channels

\* TouchlinkManager.__init__, and no operation in flight
NewTouchlinkManager ==
    [interpan_registered |-> FALSE, interpan_lock |-> FALSE, pc |-> "idle",
     op |-> "", phase |-> "", queue |-> <<>>, found |-> <<>>, sent |-> <<>>,
     entered |-> FALSE, failed |-> ""]

CtlOutcomes == {"ok", "raises", "cancelled"}

\* the frame of the sub-command reached the radio
FrameWritten(outcome) == outcome \in {"ok", "cancelled"}

\* channels = [channel] if channel else list(range(11, 27))
ChannelsOf(channel) ==
    IF channel # 0 THEN <<channel>>
    ELSE [i \in 1..MaxScanChannels |-> FIRST_CHANNEL + i - 1]

TouchlinkStep(manager) ==
    /\ handlers' = [handlers EXCEPT ![Touchlink] = manager]
    /\ UNCHANGED <<rules, source_index, cooldowns, trace_log, stats, now, devices,
                   device_state, tasks, file, next_id, appended, fast_stats,
                   last_seen, cache_dirty>>

\* scan(), identify() or factory_reset() on a ZNP coordinator, up to the first
\* await: identify and factory_reset begin with a scan
ZnpCall(op, channel) ==
    LET m == handlers[Touchlink]
    IN  /\ m.pc = "idle"
        /\ TouchlinkStep([m EXCEPT !.pc = "set_channel", !.op = op, !.phase = "scan",
                                   !.queue = ChannelsOf(channel), !.found = <<>>,
                                   !.sent = <<>>, !.entered = FALSE, !.failed = ""])
        /\ last' = [op |-> "call", name |-> op, channel |-> channel]

\* What an exception out of the loop body leads to: in the scan it is logged
\* and the next channel is taken, unless it is a cancellation; in the loop of
\* identify and factory_reset it ends the loop
AfterException(m, kind) ==
    IF m.phase = "scan" /\ kind = "raises"
    THEN IF Len(m.queue) > 1
         THEN [m EXCEPT !.queue = Tail(@), !.pc = "set_channel"]
         ELSE [m EXCEPT !.queue = <<>>, !.pc = "restore"]
    ELSE [m EXCEPT !.queue = <<>>, !.pc = "restore",
                   !.failed = IF kind = "raises" THEN "error" ELSE "cancelled"]

\* _znp_set_channel_interpan(ch) for the channel at the head of the queue
ZnpSetChannelInterpan(set, register) ==
    LET m == handlers[Touchlink]
        locked == [m EXCEPT !.interpan_lock = TRUE]
        s1 == [locked EXCEPT !.sent = Append(@, INTERPAN_SET_CHANNEL),
                             !.entered = @ \/ FrameWritten(set)]
        s2 == [s1 EXCEPT !.sent = Append(@, INTERPAN_REGISTER)]
    IN  /\ m.pc = "set_channel"
        /\ last' = last
        /\ IF set # "ok" THEN TouchlinkStep(AfterException(s1, set))
           ELSE IF m.interpan_registered
           THEN register = "ok" /\ TouchlinkStep([s1 EXCEPT !.pc = "broadcast"])
           ELSE IF register # "ok" THEN TouchlinkStep(AfterException(s2, register))
           ELSE TouchlinkStep([s2 EXCEPT !.interpan_registered = TRUE,
                                         !.pc = "broadcast"])

\* _znp_send_interpan_broadcast writes the frame, sleeps and returns the list
\* of responses it created; nothing in it adds to that list, so it returns
\* no response
BroadcastOutcomes == {"silence", "cancelled"}

\* _znp_send_interpan_broadcast and the rest of the loop body: in the scan a
\* response adds a device on this channel; in identify and factory_reset the
\* device is done
ZnpSendInterpanBroadcast(outcome) ==
    LET m == handlers[Touchlink]
        heard == IF m.phase = "scan" /\ outcome = "response"
                 THEN [m EXCEPT !.found = Append(@, Head(m.queue))] ELSE m
    IN  /\ m.pc = "broadcast"
        /\ last' = last
        /\ IF outcome = "cancelled" THEN TouchlinkStep(AfterException(m, "cancelled"))
           ELSE IF Len(m.queue) > 1
           THEN TouchlinkStep([heard EXCEPT !.queue = Tail(@), !.pc = "set_channel"])
           ELSE TouchlinkStep([heard EXCEPT !.queue = <<>>, !.pc = "restore"])

\* The operation returns: the manager is idle again
ZnpReturns(m, result, clear) ==
    /\ TouchlinkStep([m EXCEPT !.pc = "idle", !.phase = "", !.queue = <<>>])
    /\ last' = [op |-> m.op, result |-> result, found |-> m.found, sent |-> m.sent,
                entered |-> m.entered, clear |-> clear]

\* Mutant: the lock is reset only when the clear command went through
ZnpRestoreChannelInterpanNoFinally(clear) ==
    LET m == handlers[Touchlink]
        restored == [m EXCEPT !.sent = Append(@, INTERPAN_CLEAR),
                              !.interpan_lock = IF clear = "ok" THEN FALSE ELSE @,
                              !.failed = IF clear = "cancelled" THEN "cancelled" ELSE @]
    IN  /\ m.pc = "restore"
        /\ IF restored.failed = "cancelled" THEN ZnpReturns(restored, Raised, clear)
           ELSE IF m.phase = "scan" /\ m.op = "scan"
           THEN ZnpReturns(restored, Success, clear)
           ELSE IF m.phase = "scan" /\ m.found = <<>>
           THEN ZnpReturns(restored,
                        IF m.op = "identify" THEN Success
                        ELSE Failure("No Touchlink devices found"), clear)
           ELSE IF m.phase = "scan"
           THEN /\ TouchlinkStep([restored EXCEPT !.phase = "act", !.queue = m.found,
                                                  !.pc = "set_channel"])
                /\ last' = last
           ELSE ZnpReturns(restored,
                        IF m.failed = "error" THEN Failure("exception") ELSE Success,
                        clear)

\* _znp_restore_channel_interpan in the finally of the loop, and what follows
\* it without another await: the scan returns its devices; identify and
\* factory_reset return when the scan found none, or start on the devices
\* found, or return their result
ZnpRestoreChannelInterpan(clear) ==
    LET m == handlers[Touchlink]
        restored == [m EXCEPT !.sent = Append(@, INTERPAN_CLEAR),
                              !.interpan_lock = FALSE,
                              !.failed = IF clear = "cancelled" THEN "cancelled" ELSE @]
    IN  /\ m.pc = "restore"
        /\ IF restored.failed = "cancelled" THEN ZnpReturns(restored, Raised, clear)
           ELSE IF m.phase = "scan" /\ m.op = "scan"
           THEN ZnpReturns(restored, Success, clear)
           ELSE IF m.phase = "scan" /\ m.found = <<>>
           THEN ZnpReturns(restored,
                        IF m.op = "identify" THEN Success
                        ELSE Failure("No Touchlink devices found"), clear)
           ELSE IF m.phase = "scan"
           THEN /\ TouchlinkStep([restored EXCEPT !.phase = "act", !.queue = m.found,
                                                  !.pc = "set_channel"])
                /\ last' = last
           ELSE ZnpReturns(restored,
                        IF m.failed = "error" THEN Failure("exception") ELSE Success,
                        clear)

----------------------------------------------------------------------------
(* The touchlink specification: scan, identify and factory_reset on a ZNP    *)
(* coordinator, one after the other, with a radio that answers or fails.     *)

ZnpOperations == {"scan", "identify", "factory_reset"}

\* the channel argument: None, or one channel
ChannelArguments == {0, 15}

InitTouchlink ==
    /\ fast_stats = NoFastStats
    /\ last_seen = [d \in AllDevices |-> 0]
    /\ cache_dirty = FALSE
    /\ handlers = (Touchlink :> NewTouchlinkManager)
    /\ rules = <<>>
    /\ source_index = <<>>
    /\ cooldowns = <<>>
    /\ trace_log = <<>>
    /\ appended = <<>>
    /\ stats = NoStats
    /\ now = StartTime
    /\ devices = AllDevices
    /\ device_state = [d \in AllDevices |-> <<>>]
    /\ tasks = <<>>
    /\ file = Saved(<<>>)
    /\ next_id = 0
    /\ last = NoCall

NextTouchlink ==
    \/ \E op \in ZnpOperations, channel \in ChannelArguments : ZnpCall(op, channel)
    \/ \E set \in CtlOutcomes, register \in CtlOutcomes :
          ZnpSetChannelInterpan(set, register)
    \/ \E outcome \in BroadcastOutcomes : ZnpSendInterpanBroadcast(outcome)
    \/ \E clear \in CtlOutcomes : ZnpRestoreChannelInterpan(clear)

SpecTouchlink == InitTouchlink /\ [][NextTouchlink]_vars

----------------------------------------------------------------------------
(* The Matter bridge lifecycle (src/modules/matter_bridge.py)                 *)
(*                                                                            *)
(*  - The bridge is the entry "matter" of handlers: its flags, its two task   *)
(*    references, the tasks it created and the positions of the start() and   *)
(*    stop() calls in flight.                                                 *)
(*  - One step runs a coroutine from one await to the next.  A task whose     *)
(*    cancel() was called takes the CancelledError at its await as its next   *)
(*    step.                                                                   *)
(*  - A task reference is the position of the task in the list, 0 for None.   *)

Matter == "matter"

MaxMatterTasks == 3     \* tasks the bridge creates

NewMatterBridge ==
    [connected |-> FALSE, shutdown |-> FALSE, listen_task |-> 0, reconnect_task |-> 0,
     session |-> "none", task |-> <<>>, start |-> "idle", stop |-> "idle",
     awaited |-> 0, overlapped |-> FALSE, stopped |-> FALSE]

\* task.done(), and False for None
TaskDone(m, t) == t # 0 /\ m.task[t].pc = "done"

\* asyncio.create_task(coroutine): the task has not run yet
CreateTask(m, kind) ==
    [m EXCEPT !.task = Append(@, [kind |-> kind, pc |-> "created", must_cancel |-> FALSE,
                                  succeeded |-> FALSE])]

\* task.cancel()
CancelTask(m, t) ==
    IF t = 0 \/ TaskDone(m, t) THEN m ELSE [m EXCEPT !.task[t].must_cancel = TRUE]

\* if not self._shutdown and (not self._reconnect_task or
\* self._reconnect_task.done()): self._reconnect_task = create_task(...)
ScheduleReconnect(m) ==
    IF ~m.shutdown /\ (m.reconnect_task = 0 \/ TaskDone(m, m.reconnect_task))
    THEN [CreateTask(m, "reconnect") EXCEPT !.reconnect_task = Len(m.task) + 1]
    ELSE m

\* self._listen_task = asyncio.create_task(self._listen_loop())
StartListener(m) == [CreateTask(m, "listen") EXCEPT !.listen_task = Len(m.task) + 1]

\* the step may create a task
Room(m) == Len(m.task) < MaxMatterTasks

MatterStep(m) ==
    /\ handlers' = [handlers EXCEPT ![Matter] = m]
    /\ UNCHANGED <<rules, source_index, cooldowns, trace_log, stats, now, devices,
                   device_state, tasks, file, next_id, appended, last, fast_stats,
                   last_seen, cache_dirty>>

ConnectOutcomes == {"ok", "raises"}

\* start() up to await ws_connect
MatterStart ==
    LET m == handlers[Matter]
    IN  /\ m.start = "idle"
        /\ MatterStep([m EXCEPT !.start = "connect", !.session = "open",
                                !.overlapped = (m.stop # "idle"), !.stopped = FALSE])

\* start(): ws_connect returns or raises
MatterStartConnect(outcome) ==
    LET m == handlers[Matter]
    IN  /\ m.start = "connect"
        /\ IF outcome = "ok"
           THEN MatterStep([m EXCEPT !.connected = TRUE, !.shutdown = FALSE,
                                     !.start = "send"])
           ELSE MatterStep([m EXCEPT !.connected = FALSE, !.start = "cleanup"])

\* start(): _send_command("get_nodes") returns and the listener is created,
\* or it raises
MatterStartSend(outcome) ==
    LET m == handlers[Matter]
    IN  /\ m.start = "send"
        /\ Room(m)
        /\ IF outcome = "ok"
           THEN MatterStep([StartListener(m) EXCEPT !.start = "idle"])
           ELSE MatterStep([m EXCEPT !.connected = FALSE, !.start = "cleanup"])

\* start(): the session of the failed attempt is closed, and a reconnect is
\* scheduled
MatterStartCleanup ==
    LET m == handlers[Matter]
    IN  /\ m.start = "cleanup"
        /\ Room(m)
        /\ MatterStep([ScheduleReconnect([m EXCEPT !.session = "none"])
                          EXCEPT !.start = "idle"])

\* stop() returns; stopped tells that no start() call was in flight during it
StopReturns(m) ==
    [m EXCEPT !.stop = "idle", !.awaited = 0, !.overlapped = FALSE,
              !.stopped = ~m.overlapped]

\* stop() from "if self._ws and not self._ws.closed"
StopClose(m) ==
    IF m.session = "open" THEN [m EXCEPT !.stop = "close", !.awaited = 0]
    ELSE StopReturns(m)

\* stop() from "if self._reconnect_task"
StopReconnect(m) ==
    LET t == m.reconnect_task
        cancelled == CancelTask(m, t)
    IN  IF t # 0 /\ ~TaskDone(m, t)
        THEN [cancelled EXCEPT !.stop = "await_reconnect", !.awaited = t]
        ELSE StopClose(m)

\* stop() up to its first await
MatterStop ==
    LET m == handlers[Matter]
        flagged == [m EXCEPT !.shutdown = TRUE, !.connected = FALSE,
                             !.overlapped = (m.start # "idle")]
        t == m.listen_task
    IN  /\ m.stop = "idle"
        /\ IF t # 0 /\ ~TaskDone(m, t)
           THEN MatterStep([CancelTask(flagged, t) EXCEPT !.stop = "await_listen",
                                                          !.awaited = t])
           ELSE MatterStep(StopReconnect(flagged))

\* stop(): the listener it awaited has ended
MatterStopAwaitListen ==
    LET m == handlers[Matter]
    IN  /\ m.stop = "await_listen"
        /\ TaskDone(m, m.awaited)
        /\ MatterStep(StopReconnect(m))

\* stop(): the reconnect task it awaited has ended
MatterStopAwaitReconnect ==
    LET m == handlers[Matter]
    IN  /\ m.stop = "await_reconnect"
        /\ TaskDone(m, m.awaited)
        /\ MatterStep(StopClose(m))

\* stop(): the socket and the session are closed
MatterStopClose ==
    LET m == handlers[Matter]
    IN  /\ m.stop = "close"
        /\ MatterStep(StopReturns([m EXCEPT !.session = "closed"]))

\* _listen_loop runs up to its first wait for a message
ListenLoopStarts(t) ==
    LET m == handlers[Matter]
    IN  /\ t \in 1..Len(m.task)
        /\ m.task[t].kind = "listen"
        /\ m.task[t].pc = "created"
        /\ ~m.task[t].must_cancel
        /\ MatterStep([m EXCEPT !.task[t].pc = "listening"])

\* _listen_loop ends: the connection was lost or closed, the socket reported
\* an error, or the task was cancelled, and the finally clause runs; a task
\* cancelled before it ran never enters the try
ListenLoopEnds(t) ==
    LET m == handlers[Matter]
    IN  /\ t \in 1..Len(m.task)
        /\ m.task[t].kind = "listen"
        /\ Room(m)
        /\ \/ /\ m.task[t].pc = "listening"
              /\ MatterStep(ScheduleReconnect([m EXCEPT !.connected = FALSE,
                                                        !.task[t].pc = "done"]))
           \/ /\ m.task[t].pc = "created"
              /\ m.task[t].must_cancel
              /\ MatterStep([m EXCEPT !.task[t].pc = "done"])

\* while not self._shutdown, at the top of _reconnect_loop
ReconnectLoopTest(m, t) ==
    [m EXCEPT !.task[t].pc = IF m.shutdown THEN "done" ELSE "sleep"]

\* One step of _reconnect_loop: the CancelledError of a cancelled task; the
\* loop test; the sleep; ws_connect; _send_command and the new listener; the
\* clean-up after a failed attempt and the loop test
ReconnectLoopStep(t, outcome) ==
    LET m == handlers[Matter]
        pc == m.task[t].pc
    IN  /\ t \in 1..Len(m.task)
        /\ m.task[t].kind = "reconnect"
        /\ pc # "done"
        /\ IF m.task[t].must_cancel
           THEN outcome = "ok" /\ MatterStep([m EXCEPT !.task[t].pc = "done"])
           ELSE CASE pc = "created" -> outcome = "ok" /\ MatterStep(ReconnectLoopTest(m, t))
                  [] pc = "sleep" ->
                        /\ outcome = "ok"
                        /\ MatterStep([m EXCEPT !.session = "open",
                                                !.task[t].pc = "connect"])
                  [] pc = "connect" ->
                        IF outcome = "ok"
                        THEN MatterStep([m EXCEPT !.connected = TRUE,
                                                  !.task[t].pc = "send"])
                        ELSE MatterStep([m EXCEPT !.connected = FALSE,
                                                  !.task[t].pc = "cleanup"])
                  [] pc = "send" ->
                        /\ Room(m)
                        /\ IF outcome = "ok"
                           THEN MatterStep([StartListener(m)
                                               EXCEPT !.task[t].pc = "done",
                                                      !.task[t].succeeded = TRUE])
                           ELSE MatterStep([m EXCEPT !.connected = FALSE,
                                                     !.task[t].pc = "cleanup"])
                  [] pc = "cleanup" ->
                        /\ outcome = "ok"
                        /\ MatterStep(ReconnectLoopTest([m EXCEPT !.session = "none"], t))

----------------------------------------------------------------------------
(* The Matter specification: start() and stop() calls, the tasks of the      *)
(* bridge and a server that accepts, refuses and drops connections, in any   *)
(* interleaving.                                                             *)

InitMatter ==
    /\ fast_stats = NoFastStats
    /\ last_seen = [d \in AllDevices |-> 0]
    /\ cache_dirty = FALSE
    /\ handlers = (Matter :> NewMatterBridge)
    /\ rules = <<>>
    /\ source_index = <<>>
    /\ cooldowns = <<>>
    /\ trace_log = <<>>
    /\ appended = <<>>
    /\ stats = NoStats
    /\ now = StartTime
    /\ devices = AllDevices
    /\ device_state = [d \in AllDevices |-> <<>>]
    /\ tasks = <<>>
    /\ file = Saved(<<>>)
    /\ next_id = 0
    /\ last = NoCall

NextMatter ==
    \/ MatterStart
    \/ \E outcome \in ConnectOutcomes : MatterStartConnect(outcome)
    \/ \E outcome \in ConnectOutcomes : MatterStartSend(outcome)
    \/ MatterStartCleanup
    \/ MatterStop
    \/ MatterStopAwaitListen
    \/ MatterStopAwaitReconnect
    \/ MatterStopClose
    \/ \E t \in 1..MaxMatterTasks : ListenLoopStarts(t)
    \/ \E t \in 1..MaxMatterTasks : ListenLoopEnds(t)
    \/ \E t \in 1..MaxMatterTasks, outcome \in ConnectOutcomes :
          ReconnectLoopStep(t, outcome)

SpecMatter == InitMatter /\ [][NextMatter]_vars

----------------------------------------------------------------------------
(* Reading the trace *)

CooldownOf(rule_id) ==
    LET rule == rules[FindRule(rules, rule_id)]
    IN  IF "cooldown" \in DOMAIN rule THEN rule.cooldown ELSE DEFAULT_COOLDOWN

Firings(rule_id) ==
    {p \in 1..Len(appended) : appended[p].rule_id = rule_id /\ appended[p].result = "FIRING"}

TasksOf(rule_id) == {i \in 1..Len(tasks) : tasks[i].rule_id = rule_id}

\* The traces the last evaluate() call appended, when no task has run since
LastTraces == SubSeq(appended, last.traces_before + 1, Len(appended))

LastTracesOf(rule_id) == {p \in 1..Len(LastTraces) : LastTraces[p].rule_id = rule_id}

LastRuleIds == Get(source_index, last.source_ieee, <<>>)

AllPass(results, n) ==
    /\ Len(results) = n
    /\ \A i \in 1..n : results[i].result = "PASS"

----------------------------------------------------------------------------
(* C1: cooldown window *)

\* C1: two FIRING traces of one rule are stamped at least the rule's cooldown
\* apart, every BLOCKED trace follows a FIRING of the rule by less than the
\* cooldown, and a rule has exactly as many dispatch tasks as FIRING traces
\* (a BLOCKED evaluation schedules none).
C1_CooldownWindow ==
    /\ \A p, q \in 1..Len(appended) :
          (/\ p < q
           /\ appended[p].result = "FIRING" /\ appended[q].result = "FIRING"
           /\ appended[p].rule_id = appended[q].rule_id)
          => appended[q].timestamp - appended[p].timestamp >= CooldownOf(appended[p].rule_id)
    /\ \A q \in 1..Len(appended) :
          appended[q].result = "BLOCKED"
          => /\ AllPass(appended[q].conditions,
                        Len(GetConditions(rules[FindRule(rules, appended[q].rule_id)])))
             /\ \E p \in 1..(q - 1) :
                  /\ appended[p].result = "FIRING"
                  /\ appended[p].rule_id = appended[q].rule_id
                  /\ appended[q].timestamp - appended[p].timestamp
                        < CooldownOf(appended[q].rule_id)
    /\ \A i \in 1..Len(rules) :
          Cardinality(TasksOf(rules[i].id)) = Cardinality(Firings(rules[i].id))

\* A rule fired, was blocked inside the window, and fired again after it
C1_Witness ==
    \E p, q, r \in 1..Len(appended) :
        /\ p < q /\ q < r
        /\ appended[p].rule_id = 1 /\ appended[q].rule_id = 1 /\ appended[r].rule_id = 1
        /\ appended[p].result = "FIRING"
        /\ appended[q].result = "BLOCKED"
        /\ appended[r].result = "FIRING"

----------------------------------------------------------------------------
(* C2: last_fired is recorded before the dispatch task exists *)

\* C2: under every interleaving of evaluate() calls and dispatch tasks, as soon
\* as a task exists (pending, suspended or done) the cooldown table holds a
\* last_fired no older than the task's creation, two tasks of one rule are
\* created at least the rule's cooldown apart, and every evaluation blocked at
\* time t has a task of the rule created less than the cooldown before t.
C2_OneDispatchPerWindow ==
    /\ \A i \in 1..Len(tasks) :
          /\ tasks[i].rule_id \in DOMAIN cooldowns
          /\ cooldowns[tasks[i].rule_id] >= tasks[i].created
    /\ \A i, j \in 1..Len(tasks) :
          (i < j /\ tasks[i].rule_id = tasks[j].rule_id)
          => tasks[j].created - tasks[i].created >= CooldownOf(tasks[i].rule_id)
    /\ \A q \in 1..Len(appended) :
          appended[q].result = "BLOCKED"
          => \E i \in 1..Len(tasks) :
                /\ tasks[i].rule_id = appended[q].rule_id
                /\ tasks[i].created <= appended[q].timestamp
                /\ appended[q].timestamp - tasks[i].created < CooldownOf(appended[q].rule_id)

\* An evaluation was blocked, a second after the fire, while the rule's task
\* was suspended in send_command
C2_Witness ==
    /\ Len(tasks) = 1
    /\ tasks[1].pc = "send_command"
    /\ \E p, q \in 1..Len(appended) :
         /\ p < q
         /\ appended[p].result = "CALLING"
         /\ appended[q].result = "BLOCKED"
         /\ appended[q].timestamp > tasks[1].created

----------------------------------------------------------------------------
(* C3: short-circuit AND *)

\* The condition results of a trace are the results of conditions 1..k of its
\* rule, in order, all PASS except possibly the last
IsShortCircuit(trace) ==
    LET conditions == GetConditions(rules[FindRule(rules, trace.rule_id)])
        results == trace.conditions
        k == Len(results)
    IN  /\ k <= Len(conditions)
        /\ \A i \in 1..k :
              /\ results[i].index = i
              /\ results[i].attribute = conditions[i].attribute
              /\ results[i].operator = conditions[i].operator
        /\ \A i \in 1..(k - 1) : results[i].result = "PASS"

\* C3: a NO_MATCH trace carries exactly k >= 1 condition results, those of
\* conditions 1..k in list order, of which the first k-1 passed and the k-th
\* failed (FAIL or ERROR): nothing after the first failure was evaluated.  A
\* trace of a rule that got past its conditions carries all n, all PASS.
C3_ShortCircuit ==
    \A p \in 1..Len(appended) :
        LET trace == appended[p]
        IN  /\ trace.result = "NO_MATCH"
               => /\ Len(trace.conditions) >= 1
                  /\ IsShortCircuit(trace)
                  /\ trace.conditions[Len(trace.conditions)].result \in {"FAIL", "ERROR"}
            /\ trace.result \in {"BLOCKED", "FIRING", "TARGET_MISSING", "NO_SEND_COMMAND",
                                 "TARGET_UNAVAILABLE", "CAPABILITY_WARN"}
               => /\ IsShortCircuit(trace)
                  /\ AllPass(trace.conditions,
                             Len(GetConditions(rules[FindRule(rules, trace.rule_id)])))

\* The three ways to fail, each before the rule's last condition: a false
\* comparison at k = 1 of 2, an evaluation error at k = 2 of 3, a missing
\* attribute at k = 2 of 3
C3_Witness ==
    /\ \E p \in 1..Len(appended) :
          /\ appended[p].result = "NO_MATCH" /\ appended[p].rule_id = 1
          /\ Len(appended[p].conditions) = 1
          /\ appended[p].conditions[1].result = "FAIL"
          /\ appended[p].conditions[1].value_source # "missing"
    /\ \E p \in 1..Len(appended) :
          /\ appended[p].result = "NO_MATCH" /\ appended[p].rule_id = 4
          /\ Len(appended[p].conditions) = 2
          /\ appended[p].conditions[2].result = "ERROR"
    /\ \E p \in 1..Len(appended) :
          /\ appended[p].result = "NO_MATCH" /\ appended[p].rule_id = 4
          /\ Len(appended[p].conditions) = 2
          /\ appended[p].conditions[2].result = "FAIL"
          /\ appended[p].conditions[2].value_source = "missing"

----------------------------------------------------------------------------
(* C4: where a condition's value comes from *)

\* The one trace the last call appended for rule 1 (illuminance lt 50 AND
\* occupancy eq true, target Light)
LastTraceOfRule1 == LastTraces[CHOOSE p \in LastTracesOf(1) : TRUE]

Rule1FiredWithin(window, t) ==
    \E p \in 1..last.traces_before :
        /\ appended[p].rule_id = 1
        /\ appended[p].result = "FIRING"
        /\ t - appended[p].timestamp < window

\* C4: in every evaluate() call of the registered sensor, each condition result
\* takes its value from the delta when the attribute is in the delta, otherwise
\* from the cached state, and is a FAIL when it is in neither; the rule
\* [illuminance lt 50, occupancy eq true] ends NO_MATCH on {illuminance: 120},
\* matches on {occupancy: true} with cached illuminance 30 (FIRING, or BLOCKED
\* inside its cooldown), ends NO_MATCH on the same delta with cached
\* illuminance 200 or none, and matches on {illuminance: 30, occupancy: true}
\* whatever is cached.
C4_ValueResolution ==
    (last.op = "evaluate" /\ last.source_ieee = SensorA)
    => LET d == last.changed_data
           cached == device_state[SensorA]
           illuminance == IF "illuminance" \in DOMAIN cached THEN cached.illuminance.n ELSE -1
           t1 == LastTraceOfRule1
           matched == t1.result = (IF Rule1FiredWithin(2, t1.timestamp)
                                   THEN "BLOCKED" ELSE "FIRING")
       IN  /\ \A p \in 1..Len(LastTraces) :
                 \A i \in 1..Len(LastTraces[p].conditions) :
                    LET r == LastTraces[p].conditions[i]
                    IN  /\ (r.value_source = "changed_data") = (r.attribute \in DOMAIN d)
                        /\ (r.value_source = "full_state")
                             = (r.attribute \notin DOMAIN d /\ r.attribute \in DOMAIN cached)
                        /\ (r.value_source = "missing") => r.result = "FAIL"
           /\ Cardinality(LastTracesOf(1)) = 1
           /\ DOMAIN d = {"illuminance"} => t1.result = "NO_MATCH"
           /\ (DOMAIN d = {"occupancy"} /\ illuminance = 30) => matched
           /\ (DOMAIN d = {"occupancy"} /\ illuminance # 30) => t1.result = "NO_MATCH"
           /\ DOMAIN d = {"illuminance", "occupancy"} => matched
           /\ DOMAIN d = {"temperature"} => t1.result = "NOT_RELEVANT"

\* The delta {occupancy: true} met the cached illuminance 30 and the rule fired
C4_Witness ==
    /\ last.op = "evaluate" /\ last.source_ieee = SensorA
    /\ DOMAIN last.changed_data = {"occupancy"}
    /\ device_state[SensorA] = [illuminance |-> I(30)]
    /\ LastTraceOfRule1.result = "FIRING"
    /\ LastTraceOfRule1.conditions[1].value_source = "full_state"
    /\ LastTraceOfRule1.conditions[2].value_source = "changed_data"

----------------------------------------------------------------------------
(* C5: every rule of the source is traced *)

RuleOutcomes ==
    {"RULE_MISSING", "DISABLED", "NO_CONDITIONS", "NOT_RELEVANT", "NO_MATCH", "BLOCKED",
     "TARGET_MISSING", "NO_SEND_COMMAND", "FIRING"}

\* C5 as stated: every evaluate() call for a source that has rules appends, for
\* each of those rules, at least one trace carrying the rule's id.
C5_Original ==
    (last.op = "evaluate" /\ LastRuleIds # <<>>)
    => \A i \in 1..Len(LastRuleIds) : LastTracesOf(LastRuleIds[i]) # {}

\* C5 amended: every evaluate() call for a source that has rules and is in the
\* device registry appends, for each of those rules, at least one trace
\* carrying the rule's id and one of the rule outcomes; when the source is not
\* in the registry the call appends exactly one trace, SOURCE_MISSING at level
\* ERROR with rule id "-", and none for the rules.
C5_TracedWhenRegistered ==
    (last.op = "evaluate" /\ LastRuleIds # <<>>)
    => IF last.source_ieee \in devices
       THEN \A i \in 1..Len(LastRuleIds) :
               \E p \in LastTracesOf(LastRuleIds[i]) : LastTraces[p].result \in RuleOutcomes
       ELSE /\ Len(LastTraces) = 1
            /\ LastTraces[1].rule_id = NoRule
            /\ LastTraces[1].result = "SOURCE_MISSING"
            /\ LastTraces[1].level = "ERROR"

\* One call traced its seven rules, among them a disabled one, one without
\* conditions, one not relevant, one that fired and one without send_command
C5_Witness ==
    /\ last.op = "evaluate" /\ last.source_ieee = SensorA
    /\ Len(LastRuleIds) = 7
    /\ \A result \in {"DISABLED", "NO_CONDITIONS", "NOT_RELEVANT", "FIRING", "NO_SEND_COMMAND",
                        "TARGET_MISSING"} :
          \E p \in 1..Len(LastTraces) : LastTraces[p].result = result

----------------------------------------------------------------------------
(* C6: a rule that does not watch the delta *)

Watched(rule) ==
    {GetConditions(rule)[i].attribute : i \in 1..Len(GetConditions(rule))}

\* The last call appended exactly one trace for the rule, NOT_RELEVANT at
\* DEBUG in phase relevance without condition results, and created no task
OnlyNotRelevant(rule) ==
    /\ Cardinality(LastTracesOf(rule.id)) = 1
    /\ \A p \in LastTracesOf(rule.id) :
          /\ LastTraces[p].phase = "relevance"
          /\ LastTraces[p].result = "NOT_RELEVANT"
          /\ LastTraces[p].level = "DEBUG"
          /\ LastTraces[p].conditions = <<>>
    /\ \A i \in (last.tasks_before + 1)..Len(tasks) : tasks[i].rule_id # rule.id

\* C6 as stated: whenever an enabled rule watches attributes and they are
\* disjoint from the keys of the delta, evaluate() appends exactly one trace
\* for it, relevance / NOT_RELEVANT / DEBUG, evaluates no condition and
\* schedules no dispatch.
C6_Original ==
    last.op = "evaluate"
    => \A i \in 1..Len(rules) :
          (/\ rules[i].source_ieee = last.source_ieee
           /\ rules[i].enabled
           /\ Watched(rules[i]) # {}
           /\ Watched(rules[i]) \cap DOMAIN last.changed_data = {})
          => OnlyNotRelevant(rules[i])

\* C6 amended: the same, for a source device that is in the registry.
C6_NotRelevant ==
    (last.op = "evaluate" /\ last.source_ieee \in devices)
    => \A i \in 1..Len(rules) :
          (/\ rules[i].source_ieee = last.source_ieee
           /\ rules[i].enabled
           /\ GetConditions(rules[i]) # <<>>
           /\ Watched(rules[i]) \cap DOMAIN last.changed_data = {})
          => OnlyNotRelevant(rules[i])

\* The sensor reported only its temperature: the occupancy rule was traced
\* NOT_RELEVANT while the temperature rule of the same call fired
C6_Witness ==
    /\ last.op = "evaluate" /\ last.source_ieee = SensorA
    /\ DOMAIN last.changed_data = {"temperature"}
    /\ OnlyNotRelevant(rules[1])
    /\ \E p \in LastTracesOf(2) : LastTraces[p].result = "FIRING"
    /\ \E i \in (last.tasks_before + 1)..Len(tasks) : tasks[i].rule_id = 2

----------------------------------------------------------------------------
(* C7: the trace ring *)

Min(a, b) == IF a < b THEN a ELSE b

\* C7: after any sequence of appends by evaluations and dispatch tasks, the
\* ring holds at most 100 entries and is the last min(n, 100) of the n entries
\* ever appended, in append order.
C7_TraceRing ==
    LET n == Len(appended)
    IN  /\ Len(trace_log) <= max_trace_entries
        /\ Len(trace_log) = Min(n, max_trace_entries)
        /\ trace_log = SubSeq(appended, n - Min(n, max_trace_entries) + 1, n)

\* More than 100 traces were appended, the oldest were dropped, and the ring
\* holds a task's traces between those of two evaluations
C7_Witness ==
    /\ Len(appended) > max_trace_entries + 10
    /\ Len(trace_log) = max_trace_entries
    /\ trace_log[1] # appended[1]
    /\ \E p, q, r \in 1..Len(trace_log) :
          /\ p < q /\ q < r
          /\ trace_log[p].result = "EVALUATING"
          /\ trace_log[q].result \in {"SUCCESS", "COMMAND_FAILED", "EXCEPTION"}
          /\ trace_log[r].result = "EVALUATING"

----------------------------------------------------------------------------
(* C8, C9: what add_rule rejects *)

\* The step is a call of op
Called(op) == last' # last /\ last'.op = op

Rejected(result) == ~result.success /\ ~result.raised /\ result.error # ""

\* The request has a conditions list with more than 5 entries
HasTooManyConditions(d) ==
    /\ "conditions" \in DOMAIN d
    /\ d.conditions.type = "list"
    /\ Len(d.conditions.items) > 5

\* The request has a condition whose operator is not one of the six
HasInvalidOperator(d) ==
    /\ "conditions" \in DOMAIN d
    /\ d.conditions.type = "list"
    /\ \E i \in 1..Len(d.conditions.items) :
          /\ "operator" \in DOMAIN d.conditions.items[i]
          /\ d.conditions.items[i].operator \notin {"eq", "neq", "gt", "lt", "gte", "lte"}

HasInvalidCommand(d) == "command" \in DOMAIN d /\ d.command \notin VALID_COMMANDS

HasUnregisteredDevice(d) ==
    \/ "source_ieee" \in DOMAIN d /\ d.source_ieee \notin devices
    \/ "target_ieee" \in DOMAIN d /\ d.target_ieee \notin devices

\* C8: add_rule rejects, with success=false and an error, a request with more
\* than 5 conditions, with a condition whose operator is not one of the six,
\* with a command outside the valid set, or with a source or target that is
\* not in the registry; and a rejected request leaves the rule list, the source
\* index and the persisted file unchanged.
C8_AddRuleRejects ==
    [][ Called("add_rule") =>
          LET d == last'.rule_data
          IN  /\ ( \/ HasTooManyConditions(d) \/ HasInvalidOperator(d)
                   \/ HasInvalidCommand(d) \/ HasUnregisteredDevice(d) )
                 => Rejected(last'.result)
              /\ Rejected(last'.result)
                 => /\ rules' = rules
                    /\ source_index' = source_index
                    /\ file' = file ]_vars

\* A request with an invalid operator in its second condition was rejected
\* while the engine held rules
C8_Witness ==
    /\ last.op = "add_rule"
    /\ HasInvalidOperator(last.rule_data)
    /\ ~HasTooManyConditions(last.rule_data)
    /\ Rejected(last.result)
    /\ rules # <<>>
    /\ file = Saved(rules)

\* C9: for every create request whose conditions field is an empty list,
\* whatever its other fields, add_rule returns success=false and stores no rule.
C9_EmptyConditionsRejected ==
    [][ ( /\ Called("add_rule")
          /\ "conditions" \in DOMAIN last'.rule_data
          /\ last'.rule_data.conditions = List(<<>>) )
        => (~last'.result.success /\ rules' = rules) ]_vars

----------------------------------------------------------------------------
(* C10: the rules of a source *)

\* C10: from an empty rule set, whatever add_rule, update_rule and delete_rule
\* calls are made, no source owns more than 10 rules; add_rule for a source
\* that owns 10 is rejected, and for one that owns fewer, as after a delete,
\* a valid request is accepted.
C10_RuleLimit ==
    /\ [](\A source_ieee \in AllDevices : Owned(rules, source_ieee) <= 10)
    /\ [][ Called("add_rule") =>
             LET source_ieee == last'.rule_data.source_ieee
             IN  IF Owned(rules, source_ieee) >= 10
                 THEN Rejected(last'.result) /\ rules' = rules
                 ELSE /\ last'.result.success
                      /\ Owned(rules', source_ieee) = Owned(rules, source_ieee) + 1 ]_vars

\* The source owns 10 rules again after one of its first 10 was deleted and an
\* eleventh created, and a further add_rule was rejected
C10_Witness ==
    /\ last.op = "add_rule"
    /\ Rejected(last.result)
    /\ last.rule_data.source_ieee = SensorA
    /\ Owned(rules, SensorA) = 10
    /\ \E i \in 1..Len(rules) : rules[i].id > 10 /\ rules[i].source_ieee = SensorA
    /\ \E id \in 1..10 : \A i \in 1..Len(rules) : rules[i].id # id

----------------------------------------------------------------------------
(* C11: the stored rules are well formed *)

WellFormedCondition(cond) ==
    /\ {"attribute", "operator", "value"} \subseteq DOMAIN cond
    /\ cond.operator \in {"eq", "neq", "gt", "lt", "gte", "lte"}

WellFormedRule(rule) ==
    /\ Len(rule.conditions) >= 1
    /\ Len(rule.conditions) <= 5
    /\ \A i \in 1..Len(rule.conditions) : WellFormedCondition(rule.conditions[i])
    /\ rule.action.command \in {"on", "off", "toggle", "brightness", "color_temp",
                                "open", "close", "stop", "position"}

----------------------------------------------------------------------------
(* C12, C13: saving the rules *)

CalledCrud == Called("add_rule") \/ Called("update_rule") \/ Called("delete_rule")

\* C12: saving is atomic: whatever happens during a save, a write error midway
\* included, the file holds the complete previous rule document or the
\* complete new one, never an empty, truncated or partial document.
C12_AtomicSave ==
    [][ CalledCrud => (file'.valid /\ (file' = file \/ file' = Saved(rules'))) ]_vars

\* C13: when persisting fails during add_rule, update_rule or delete_rule, no
\* exception escapes the operation and it returns its normal result, the rules
\* in memory and the source index reflect the change, and a save that succeeds
\* writes the complete rule set in memory.
C13_SaveFailureContained ==
    [][ CalledCrud =>
          /\ ~last'.result.raised
          /\ rules' # rules => last'.result.success
          /\ source_index' = RebuildIndex(rules')
          /\ file' # file => (file' = Saved(rules') \/ ~file'.valid) ]_vars


----------------------------------------------------------------------------
(* C14: the migration of legacy rules *)

FreshEngine ==
    [trace_log |-> <<>>, appended |-> <<>>, cooldowns |-> <<>>, tasks |-> <<>>,
     stats |-> NoStats]

\* What evaluate() does on a new engine that holds the rules rs
EvaluationOf(rs, changed_data) ==
    EvaluateCall(FreshEngine, rs, RebuildIndex(rs), SensorA, changed_data,
                 device_state, devices, now)

\* The load that led to this state migrated the rules of the file it read
C14_Migrated ==
    (last.op = "load" /\ last.file_before.valid) =>
        LET before == last.file_before.rules
        IN  /\ Len(rules) = Len(before)
            /\ \A i \in 1..Len(before) :
                  IF "threshold" \in DOMAIN before[i] /\ "conditions" \notin DOMAIN before[i]
                  THEN /\ rules[i].conditions = <<before[i].threshold>>
                       /\ "threshold" \notin DOMAIN rules[i]
                       /\ \A k \in DOMAIN before[i] \ {"threshold"} :
                             rules[i][k] = before[i][k]
                       /\ last.outcome = "saved" => file = Saved(rules)
                  ELSE rules[i] = before[i]
            /\ \A changed_data \in LoadDeltas :
                  EvaluationOf(rules, changed_data) = EvaluationOf(before, changed_data)

\* C14: after loading, every rule that had a threshold and no conditions has
\* conditions = [threshold] and no threshold, and the file is rewritten; loading
\* the rewritten file migrates and rewrites nothing; and the migrated rules
\* evaluate exactly as the legacy rules did.
C14_Migration ==
    /\ []C14_Migrated
    /\ [][ (Called("load") /\ file = Saved(rules)) => (rules' = rules /\ file' = file) ]_vars

\* A file with two legacy rules was loaded, migrated and rewritten
C14_Witness ==
    /\ last.op = "load"
    /\ last.file_before.valid
    /\ Len(rules) = 3
    /\ \E i \in 1..3 : "threshold" \in DOMAIN rules[i]
    /\ \E i \in 1..3 : "threshold" \in DOMAIN last.file_before.rules[i]
                          /\ "threshold" \notin DOMAIN rules[i]
    /\ file = Saved(rules)
    /\ file # last.file_before


----------------------------------------------------------------------------
(* C15: the result trace of a dispatch task *)

ResultTraces(rule_id) ==
    {p \in 1..Len(appended) :
        /\ appended[p].rule_id = rule_id
        /\ appended[p].result \in {"SUCCESS", "COMMAND_FAILED", "EXCEPTION"}}

\* The tasks of a rule whose send_command has returned or raised
Answered(rule_id) == {i \in TasksOf(rule_id) : tasks[i].pc \in {"emit", "done"}}

\* C15: every dispatch task appends exactly one result trace among SUCCESS,
\* COMMAND_FAILED and EXCEPTION, the one that send_command's return or exception
\* calls for: a rule has as many result traces as tasks whose send_command has
\* ended, and a task that has appended its result trace ends without another.
C15_OneResultTrace ==
    /\ [](\A i \in 1..Len(tasks) :
             Cardinality(ResultTraces(tasks[i].rule_id))
                = Cardinality(Answered(tasks[i].rule_id)))
    /\ [][ \A i \in 1..Len(tasks) :
              (tasks[i].pc = "emit" /\ tasks'[i].pc = "done") => appended' = appended ]_vars


----------------------------------------------------------------------------
(* C16: the dispatch is scheduled, not called *)

\* C16: evaluate() never calls send_command itself: a call of evaluate() only
\* creates tasks, which have not started when it returns, and moves no task on;
\* no CALLING trace is appended within it; and it runs once, not again within
\* itself, also when the rule's target is the reporting device.
C16_DispatchScheduled ==
    [][ /\ \A i \in 1..Len(tasks') : i > Len(tasks) => tasks'[i].pc = "created"
        /\ stats'.evaluations > stats.evaluations
           => /\ stats'.evaluations = stats.evaluations + 1
              /\ SubSeq(tasks', 1, Len(tasks)) = tasks
              /\ \A p \in (Len(appended) + 1)..Len(appended') :
                    appended'[p].result \notin {"CALLING", "SUCCESS", "COMMAND_FAILED",
                                               "EXCEPTION"}
              /\ Cardinality({p \in (Len(appended) + 1)..Len(appended') :
                                 appended'[p].result = "EVALUATING"}) = 1 ]_vars

\* The rule fired on its own target; the report that followed the command was
\* a second call of evaluate(), after send_command, and fired the rule again
C16_Witness ==
    /\ Len(tasks) = 2
    /\ tasks[1].pc = "done"
    /\ tasks[2].pc = "created"
    /\ tasks[1].target_ieee = rules[1].source_ieee
    /\ \E p, q, r \in 1..Len(appended) :
          /\ p < q /\ q < r
          /\ appended[p].result = "CALLING"
          /\ appended[q].result = "SUCCESS"
          /\ appended[r].result = "FIRING"


\* The Report Attributes frames that carry a boolean or bitmap8 record for
\* attribute 0x0000 after the records of q: the bytes up to and including the
\* value byte, and the value
StartsWith(message, head) ==
    Len(head) <= Len(message) /\ SubSeq(message, 1, Len(head)) = head

IsOccupancyRecord(r) ==
    r[1] = 0 /\ r[2] = 0 /\ r[3] \in {DATA_TYPE_BOOL, DATA_TYPE_BITMAP8}

\* the types _get_data_type_size gives a size for
InSizeTable(r) ==
    r[3] \in {0, 16, 24, 25, 26, 27, 32, 33, 34, 35, 40, 41, 43, 48, 49, 57, 58, 65, 66}

OccupancyReports(before) ==
    { [head |-> <<24, 1, CMD_REPORT_ATTRIBUTES>> \o Flatten(q) \o r, value |-> r[4]] :
        q \in SeqsUpTo(before, MaxFastRecords - 1),
        r \in {x \in AttributeRecords : IsOccupancyRecord(x)} }

\* every record before the occupancy record, and only those the scan can skip
AnyRecordsBefore == OccupancyReports({r \in AttributeRecords : ~IsOccupancyRecord(r)})
SizedRecordsBefore ==
    OccupancyReports({r \in AttributeRecords : ~IsOccupancyRecord(r) /\ InSizeTable(r)})

OccupancyDecoded(reports) ==
    ( /\ Called("process_frame")
      /\ last'.sender_ieee \in devices
      /\ last'.profile = PROFILE_HA
      /\ last'.cluster \in {CLUSTER_OCCUPANCY, CLUSTER_ONOFF} )
    => \A report \in reports :
          StartsWith(last'.message, report.head)
          => LET ieee == last'.sender_ieee
                 low == B(report.value % 2 = 1)
             IN  /\ last'.result /\ ~last'.raised
                 /\ device_state'[ieee].occupancy = low
                 /\ device_state'[ieee].motion = low
                 /\ device_state'[ieee].presence = low
                 /\ last_seen'[ieee] = Millis(now)
                 /\ last_seen'[ieee] >= last_seen[ieee]
                 /\ cache_dirty'

\* C17 as stated: for a known sender, a Report Attributes frame on cluster
\* 0x0406 or 0x0006 whose record for attribute 0x0000 is a boolean or a bitmap8
\* sets occupancy, motion and presence to the low bit of the value byte, sets
\* last_seen to the time of the call, marks the cache dirty and returns True,
\* whatever records precede that record.
C17_Original == [][OccupancyDecoded(AnyRecordsBefore)]_vars

\* C17: the same, for the frames in which every record before the record for
\* attribute 0x0000 has a type the size table knows (fixed size, or octet and
\* character strings): a record of any other type ends the scan before it.
C17_OccupancyDecoded == [][OccupancyDecoded(SizedRecordsBefore)]_vars

\* The sensor reported presence over the Tuya cluster; then the frame with a
\* character string and the bitmap8 record of value 0 cleared its occupancy
C17_Witness ==
    /\ last.op = "process_frame"
    /\ last.result
    /\ last.cluster = CLUSTER_OCCUPANCY
    /\ last.message = <<24, 1, 10, 5, 0, 66, 2, 0, 0, 0, 0, 24, 0>>
    /\ "state" \in DOMAIN device_state[SensorA]
    /\ device_state[SensorA].occupancy = B(FALSE)
    /\ device_state[SensorA].motion = B(FALSE)
    /\ device_state[SensorA].presence = B(FALSE)
    /\ last_seen[SensorA] >= Millis(StartTime)
    /\ cache_dirty


\* C20: process_frame returns True or False for every sender, profile,
\* cluster and byte string, the empty frame and every truncated frame included,
\* and no exception leaves it; the call is counted in total_processed; an
\* exception raised while decoding adds one to parse_errors and the call
\* returns False, and a call without one leaves parse_errors as it was.
C20_NoExceptionEscapes ==
    [][Called("process_frame")
       => /\ ~last'.raised
          /\ last'.result \in BOOLEAN
          /\ fast_stats'.total_processed = fast_stats.total_processed + 1
          /\ IF last'.error
             THEN /\ fast_stats'.parse_errors = fast_stats.parse_errors + 1
                  /\ last'.result = FALSE
             ELSE fast_stats'.parse_errors = fast_stats.parse_errors]_vars

\* A Tuya frame whose DP 1 is a bool of length 0: dp_data[0] raised, the call
\* returned False and counted one parse error; the sensor's state was not written
C20_Witness ==
    /\ last.op = "process_frame"
    /\ last.cluster = CLUSTER_TUYA
    /\ last.message = <<9, 1, 2, 0, 0, 1, 1, 1, 0, 0>>
    /\ last.error
    /\ ~last.result
    /\ ~last.raised
    /\ fast_stats.parse_errors = 1
    /\ fast_stats.fast_path_hits = 0
    /\ ~cache_dirty


\* The normal pipeline hands the handler the Zone Status Change Notification
\* that the fast path has just decoded, with the same zone status
SameEventDispatched ==
    /\ last.op = "process_frame"
    /\ last.cluster = CLUSTER_IAS_ZONE
    /\ last.result
    /\ Called("cluster_command")
    /\ last'.command_id = 0
    /\ last'.ieee = last.sender_ieee
    /\ last'.args # <<>>
    /\ last'.args[1] = ZoneStatusOf(last.message)

\* C18: the fast path decodes the zone status with the handler's bits (bit 2
\* tamper, bit 3 battery-low): for every status, the tamper and battery_low it
\* wrote equal those the handler's cluster_command(0x00) hands to update_state
\* for the same status.
C18_SameZoneStatusBits ==
    [][SameEventDispatched
       => LET status == last'.args[1]
              written == device_state[last'.ieee]
          IN  /\ written.tamper = B(Bit(status, 2))
              /\ written.battery_low = B(Bit(status, 3))
              /\ written.tamper = last'.updates.tamper
              /\ written.battery_low = last'.updates.battery_low]_vars

\* C19: after the fast path has processed a frame, the same event through the
\* handler changes nothing, for every zone type: every key of the map the
\* handler hands to update_state is in the state map with that value already,
\* which is when merging it leaves the state as the fast path left it and
\* makes an empty delta.
C19_NonInterference ==
    [][SameEventDispatched
       => \A k \in DOMAIN last'.updates :
             /\ k \in DOMAIN device_state[last'.ieee]
             /\ device_state[last'.ieee][k] = last'.updates[k]]_vars


----------------------------------------------------------------------------
(* C21: the window covering's position is the inverse of the wire value *)

IsPercent(v) == v.t = "int" /\ v.n \in 0..FULL_PERCENT

LiftReport == Called("cover_attribute_updated")
                 /\ last'.attrid = ATTR_CURRENT_POSITION_LIFT_PCT

\* C21: set_position(p) sends go_to_lift_percentage(100 - p); a lift report of
\* r writes position = 100 - r, is_closed = (r = 100) and is_open = (r = 0);
\* and for every p in 0..100 a device that reports back the wire value it was
\* sent leaves position = p.
C21_PositionInverted ==
    [][ /\ (Called("set_position") /\ IsPercent(last'.position))
            => last'.sent = <<"go_to_lift_percentage",
                              FULL_PERCENT - last'.position.n>>
        /\ (LiftReport /\ IsPercent(last'.value))
            => /\ last'.updates.position = I(FULL_PERCENT - last'.value.n)
               /\ last'.updates.is_closed = B(last'.value.n = FULL_PERCENT)
               /\ last'.updates.is_open = B(last'.value.n = 0)
               /\ device_state'[Cover].position = last'.updates.position
               /\ device_state'[Cover].is_closed = last'.updates.is_closed
               /\ device_state'[Cover].is_open = last'.updates.is_open
        /\ (/\ last # NoCall
            /\ last.op = "set_position"
            /\ IsPercent(last.position)
            /\ LiftReport
            /\ last'.value = I(last.sent[2]))
            => device_state'[Cover].position = last.position ]_vars

\* position 30 was sent as 70 and the report of 70 left position 30, neither
\* open nor closed
C21_Witness ==
    /\ last # NoCall
    /\ last.op = "cover_attribute_updated"
    /\ last.attrid = ATTR_CURRENT_POSITION_LIFT_PCT
    /\ last.value = I(70)
    /\ device_state[Cover].position = I(30)
    /\ device_state[Cover].is_open = B(FALSE)
    /\ device_state[Cover].is_closed = B(FALSE)


----------------------------------------------------------------------------
(* C22: the scaling of electrical measurements when the read fails *)

ScalingReadFailed(call) ==
    call.op = "measurement_configure" /\ call.read \in {"raises", "nothing"}

SixScalingValues(h) ==
    <<h.voltage_multiplier, h.voltage_divisor, h.current_multiplier,
      h.current_divisor, h.power_multiplier, h.power_divisor>>

\* the raw value as a float
Unscaled(value) == Float(value.n * THOUSAND)

IsRaw(v) == v.t = "int"

\* C22: if the scaling read of configure fails (raises or returns no data) on
\* a handler whose scaling was never set, all six scaling values are 1, so a
\* raw active power, voltage or current that follows is reported unscaled
\* (2345 as 2345.0).
C22_ScalingStaysOne ==
    [][ /\ (Called("measurement_configure") /\ ScalingReadFailed(last')
               /\ handlers[Plug] = NewMeasurementHandler)
            => SixScalingValues(handlers'[Plug]) = <<1, 1, 1, 1, 1, 1>>
        /\ (/\ last # NoCall
            /\ ScalingReadFailed(last)
            /\ SixScalingValues(handlers[Plug]) = SixScalingValues(NewMeasurementHandler)
            /\ Called("measurement_attribute_updated")
            /\ last'.attrid \in MeasurementAttributes
            /\ IsRaw(last'.value))
            => \A k \in DOMAIN last'.updates : last'.updates[k] = Unscaled(last'.value)
      ]_vars


----------------------------------------------------------------------------
(* C23: the state keys of a zone status follow the zone type *)

ZoneStatusCommand(call) ==
    call.op = "cluster_command" /\ call.command_id = 0 /\ call.args # <<>>

ZoneStatusReport(call) ==
    call.op = "attribute_updated" /\ call.attrid = ATTR_ZONE_STATUS

\* the zone status a call carries
StatusIn(call) == IF call.op = "cluster_command" THEN call.args[1] ELSE call.value

\* every key of ks is written with the value v, in the map handed to
\* update_state and in the state
Written(ks, v) ==
    \A k \in ks : /\ k \in DOMAIN last'.updates
                  /\ last'.updates[k] = v
                  /\ device_state'[SensorA][k] = v

\* C23: with zone type contact_switch every Zone Status Change sets contact =
\* NOT alarm1 and is_open = alarm1; a motion sensor writes alarm1 to occupancy,
\* motion and presence; leak, smoke, CO and vibration types write it to
\* water_leak, smoke, co_detected and vibration; and a zone-status attribute
\* report (attribute 0x0002) is mapped exactly like the command: the report of
\* the status a command just carried, and the command carrying the status just
\* reported, hand the same map to update_state.
C23_ZoneTypeMapping ==
    [][ /\ (last' # last /\ (ZoneStatusCommand(last') \/ ZoneStatusReport(last')))
            => LET alarm1 == StatusIn(last') % 2 = 1
                   name == ZoneTypeName(handlers[SensorA].zone_type)
               IN  /\ name = "contact_switch"
                        => Written({"contact"}, B(~alarm1)) /\ Written({"is_open"}, B(alarm1))
                   /\ name = "motion_sensor"
                        => Written({"occupancy", "motion", "presence"}, B(alarm1))
                   /\ name = "water_sensor" => Written({"water_leak"}, B(alarm1))
                   /\ name = "fire_sensor" => Written({"smoke"}, B(alarm1))
                   /\ name = "co_sensor" => Written({"co_detected"}, B(alarm1))
                   /\ name = "vibration_sensor" => Written({"vibration"}, B(alarm1))
        /\ (/\ last' # last
            /\ \/ ZoneStatusCommand(last) /\ ZoneStatusReport(last')
               \/ ZoneStatusReport(last) /\ ZoneStatusCommand(last')
            /\ StatusIn(last') = StatusIn(last))
            => last'.updates = last.updates /\ device_state' = device_state
      ]_vars

\* a contact switch reported status 0x0001 as an attribute: contact false,
\* is_open true
C23_Witness ==
    /\ ZoneStatusReport(last)
    /\ last.value = 1
    /\ ZoneTypeName(handlers[SensorA].zone_type) = "contact_switch"
    /\ device_state[SensorA].contact = B(FALSE)
    /\ device_state[SensorA].is_open = B(TRUE)


----------------------------------------------------------------------------
(* C24, C25: configuring the IAS Zone handler *)

Bind == <<"bind">>
WriteCie == <<"write_attributes", "cie_addr", CoordinatorIeee>>
ReadZoneType == <<"read_attributes", ATTR_ZONE_TYPE, ATTR_ZONE_STATE>>

\* C24: configure binds the cluster, then writes cie_addr = the coordinator's
\* IEEE, then reads the zone type, in that order (a step that cannot start is
\* left out, the others keep their order); after a configure in which no zone
\* type was learned, cluster_command(tsn, 0x00, [0x0001]) hands update_state
\* occupancy, motion and presence true and tamper and battery_low false.
C24_ConfigureOrder ==
    [][ /\ Called("configure")
            => /\ last'.sent[1] = Bind
               /\ last'.bind = "ok" /\ last'.coordinator = "found"
                     => last'.sent = <<Bind, WriteCie, ReadZoneType>>
               /\ last'.bind = "ok" /\ last'.coordinator # "found"
                     => last'.sent = <<Bind, ReadZoneType>>
               /\ last'.bind # "ok" => last'.sent = <<Bind>>
        /\ (/\ last.op = "configure"
            /\ handlers[SensorA].zone_type = NoZoneType
            /\ Called("cluster_command")
            /\ last'.command_id = 0
            /\ last'.args = <<1>>)
            => /\ last'.updates.occupancy = B(TRUE)
               /\ last'.updates.motion = B(TRUE)
               /\ last'.updates.presence = B(TRUE)
               /\ last'.updates.tamper = B(FALSE)
               /\ last'.updates.battery_low = B(FALSE)
               /\ \A k \in {"occupancy", "motion", "presence", "tamper", "battery_low"} :
                     device_state'[SensorA][k] = last'.updates[k]
      ]_vars

\* the handler was configured, learned no zone type, and status 0x0001 was
\* written as motion
C24_Witness ==
    /\ last.op = "cluster_command"
    /\ last.args = <<1>>
    /\ handlers[SensorA].lifecycle = "ACTIVE"
    /\ handlers[SensorA].zone_type = NoZoneType
    /\ device_state[SensorA].occupancy = B(TRUE)
    /\ device_state[SensorA].tamper = B(FALSE)

----------------------------------------------------------------------------
(* C26: LightLink enrolment *)

IsAdd(m) == m[1] = "add_to_group"

\* the groups the coordinator was asked to join, in order
GroupsAsked(sent) ==
    LET adds == SelectSeq(sent, IsAdd)
    IN  [i \in 1..Len(adds) |-> adds[i][2]]

Elements(q) == {q[i] : i \in 1..Len(q)}

\* C26: configure never binds the cluster; if the device returns group
\* identifiers G1..Gn the coordinator is asked to join each Gi, one after the
\* other, and joins every one whose join does not fail, and it is not asked
\* to join group 0x0000 unless that is one of them; if the device returns
\* none the coordinator is asked to join group 0x0000 and no other group; if
\* the group query times out, no group is joined and configure returns False.
C26_LightLinkGroups ==
    [][ Called("lightlink_configure")
        => /\ \A i \in 1..Len(last'.sent) : last'.sent[i][1] # "bind"
           /\ (last'.coordinator = "found" /\ last'.query = "groups"
                  /\ last'.records # <<>>)
                 => /\ GroupsAsked(last'.sent) = last'.records
                    /\ last'.joined = Elements(last'.records) \ last'.failing
                    /\ last'.result
           /\ (last'.coordinator = "found"
                  /\ \/ last'.query = "default_response"
                     \/ last'.query = "groups" /\ last'.records = <<>>)
                 => /\ GroupsAsked(last'.sent) = <<DEFAULT_GROUP>>
                    /\ last'.joined = {DEFAULT_GROUP} \ last'.failing
                    /\ last'.result
           /\ last'.query = "timeout"
                 => /\ GroupsAsked(last'.sent) = <<>>
                    /\ last'.joined = {}
                    /\ ~last'.result
      ]_vars

\* two groups were returned, joining the first failed and the second was
\* joined
C26_Witness ==
    /\ last.op = "lightlink_configure"
    /\ last.records = <<4097, 4098>>
    /\ last.failing = {4097}
    /\ last.joined = {4098}
    /\ GroupsAsked(last.sent) = <<4097, 4098>>
    /\ last.result


----------------------------------------------------------------------------
(* C27: the link-quality wrappers are observational *)

\* C27: for every packet and message the original callback is invoked
\* exactly once with the unmodified arguments and its result is returned,
\* whether or not extracting or recording the sample raises; no exception of
\* the intake leaves the wrapper.
C27_WrappersObservational ==
    [][ (Called("packet_received") \/ Called("handle_message"))
        => /\ last'.original_calls = <<last'.arguments>>
           /\ last'.returned = "original result"
           /\ ~last'.raised ]_vars


----------------------------------------------------------------------------
(* C28, C29: the target checks of evaluate() *)

\* the traces and the tasks the step added
NewTraces == SubSeq(appended', Len(appended) + 1, Len(appended'))

NewTasks == SubSeq(tasks', Len(tasks) + 1, Len(tasks'))

Traced(rule_id, result) ==
    \E p \in 1..Len(NewTraces) :
        NewTraces[p].rule_id = rule_id /\ NewTraces[p].result = result

Scheduled(rule_id) == \E i \in 1..Len(NewTasks) : NewTasks[i].rule_id = rule_id

\* the rules of the call's source that are enabled, whose conditions all
\* pass on the delta, and that are not in cooldown
Ready ==
    {i \in 1..Len(rules) :
        /\ rules[i].source_ieee = last'.source_ieee
        /\ rules[i].enabled
        /\ TriggeredAttrs(GetConditions(rules[i]), last'.changed_data) # {}
        /\ ConditionLoop(GetConditions(rules[i]), 1, last'.changed_data,
                         device_state[last'.source_ieee], <<>>).all_matched
        /\ now - Get(cooldowns, rules[i].id, 0) >= rules[i].cooldown}

\* the registry entries without send_command, those marked unavailable, and
\* those without a capabilities object
NoCommandSurface == {Stub}
Unavailable == {Plug}
NoCapabilities == {Plug}

\* C28: when a rule's conditions all pass and it is not in cooldown but its
\* target is absent from the registry or has no send_command, evaluate()
\* emits an ERROR trace (TARGET_MISSING or NO_SEND_COMMAND), no FIRING trace,
\* schedules no dispatch and leaves the rule's cooldown timestamp unchanged.
C28_TargetMissing ==
    [][ Called("evaluate")
        => /\ \A i \in Ready :
                 /\ rules[i].target_ieee \notin devices
                       => Traced(rules[i].id, "TARGET_MISSING")
                 /\ (rules[i].target_ieee \in devices
                        /\ rules[i].target_ieee \in NoCommandSurface)
                       => Traced(rules[i].id, "NO_SEND_COMMAND")
           /\ \A p \in 1..Len(NewTraces) :
                 NewTraces[p].result \in {"TARGET_MISSING", "NO_SEND_COMMAND"}
                 => /\ NewTraces[p].level = "ERROR"
                    /\ ~Traced(NewTraces[p].rule_id, "FIRING")
                    /\ ~Scheduled(NewTraces[p].rule_id)
                    /\ Get(cooldowns', NewTraces[p].rule_id, 0)
                          = Get(cooldowns, NewTraces[p].rule_id, 0)
      ]_vars

\* a rule whose target was missing fired once the target had joined, within
\* what would have been its cooldown; another had no send_command
C28_Witness ==
    /\ \E p, q \in 1..Len(appended) :
          /\ p < q
          /\ appended[p].rule_id = 1 /\ appended[p].result = "TARGET_MISSING"
          /\ appended[q].rule_id = 1 /\ appended[q].result = "FIRING"
          /\ appended[q].timestamp - appended[p].timestamp < CooldownOf(1)
    /\ \E p \in 1..Len(appended) :
          appended[p].rule_id = 2 /\ appended[p].result = "NO_SEND_COMMAND"
    /\ TasksOf(2) = {}

\* C29: the capability check is soft: a command the target's capabilities do
\* not cover, a target with no capabilities object, or a target marked
\* unavailable gives a WARNING trace (CAPABILITY_WARN, TARGET_UNAVAILABLE) and
\* nothing else: the FIRING trace follows, the cooldown is recorded and the
\* dispatch task is scheduled.
C29_SoftCapabilityCheck ==
    [][ Called("evaluate")
        => /\ \A i \in Ready :
                 (rules[i].target_ieee \in devices \ NoCommandSurface)
                 => /\ (\/ rules[i].target_ieee \in NoCapabilities
                        \/ rules[i].target_ieee = Light /\ rules[i].action.command = "open"
                        \/ rules[i].target_ieee = Removed)
                          => Traced(rules[i].id, "CAPABILITY_WARN")
                    /\ rules[i].target_ieee \in Unavailable
                          => Traced(rules[i].id, "TARGET_UNAVAILABLE")
                    /\ Traced(rules[i].id, "FIRING")
           /\ \A p \in 1..Len(NewTraces) :
                 NewTraces[p].result \in {"CAPABILITY_WARN", "TARGET_UNAVAILABLE"}
                 => /\ NewTraces[p].level = "WARNING"
                    /\ \E q \in (p + 1)..Len(NewTraces) :
                          /\ NewTraces[q].rule_id = NewTraces[p].rule_id
                          /\ NewTraces[q].result = "FIRING"
                    /\ Scheduled(NewTraces[p].rule_id)
                    /\ NewTraces[p].rule_id \in DOMAIN cooldowns'
                    /\ cooldowns'[NewTraces[p].rule_id] = now
      ]_vars

\* a cover command to a light, and a command to an unavailable plug without
\* capabilities object, were warned about and fired
C29_Witness ==
    /\ \E p, q \in 1..Len(appended) :
          /\ p < q
          /\ appended[p].rule_id = 3 /\ appended[p].result = "CAPABILITY_WARN"
          /\ appended[q].rule_id = 3 /\ appended[q].result = "FIRING"
    /\ \E p, q, r \in 1..Len(appended) :
          /\ p < q /\ q < r
          /\ appended[p].rule_id = 4 /\ appended[p].result = "TARGET_UNAVAILABLE"
          /\ appended[q].rule_id = 4 /\ appended[q].result = "CAPABILITY_WARN"
          /\ appended[r].rule_id = 4 /\ appended[r].result = "FIRING"
    /\ TasksOf(3) # {} /\ TasksOf(4) # {}
    /\ 3 \in DOMAIN cooldowns /\ 4 \in DOMAIN cooldowns


----------------------------------------------------------------------------
(* C30: a fast-path hit is a write *)

\* C30: whenever process_frame returns True (and counts a fast-path hit), the
\* sender's state map was written, its last_seen stamped and the cache-dirty
\* flag set during that call; a call that writes no device state is not
\* reported as a hit.
C30_HitMeansWritten ==
    [][ (Called("process_frame") /\ last'.result)
        => /\ fast_stats'.fast_path_hits = fast_stats.fast_path_hits + 1
           /\ last'.sender_ieee \in devices
           /\ DOMAIN device_state'[last'.sender_ieee] # {}
           /\ last_seen'[last'.sender_ieee] = Millis(now)
           /\ cache_dirty'
      ]_vars


----------------------------------------------------------------------------
(* C31: the attribute scan skips records by their size *)

Skippable(report) ==
    \A i \in 1..Len(report.before) :
        report.before[i][3] \in FixedTypes \cup StringTypes

\* the call decoded the report the frame was built from
ScanOf(report) ==
    /\ Called("process_frame")
    /\ last'.cluster \in {CLUSTER_OCCUPANCY, CLUSTER_ONOFF}
    /\ last'.message = report.message

\* C31: in a Report Attributes frame the records before the record for
\* attribute 0x0000 are skipped by their size (the fixed-size table, or 1 +
\* the length prefix for types 0x41 and 0x42), so a later boolean or bitmap8
\* record for attribute 0x0000 is decoded; a record of a type outside the
\* table before it ends the scan: the call returns False, writes no device
\* state and counts no hit.
C31_SkippedBySize ==
    [][ \A report \in ScanReports :
          ScanOf(report)
          => IF Skippable(report)
             THEN /\ last'.result
                  /\ device_state'[SensorA].occupancy = B(report.value % 2 = 1)
                  /\ device_state'[SensorA].motion = B(report.value % 2 = 1)
                  /\ device_state'[SensorA].presence = B(report.value % 2 = 1)
                  /\ fast_stats'.fast_path_hits = fast_stats.fast_path_hits + 1
             ELSE /\ ~last'.result
                  /\ ~last'.error
                  /\ device_state' = device_state
                  /\ last_seen' = last_seen
                  /\ cache_dirty' = cache_dirty
                  /\ fast_stats'.fast_path_hits = fast_stats.fast_path_hits
                  /\ fast_stats'.parse_errors = fast_stats.parse_errors
      ]_vars

\* an occupied sensor was cleared by the record that follows a string of four
\* characters and a 32-bit value, both reading as an occupancy record
C31_Witness ==
    /\ last.op = "process_frame"
    /\ last.message = <<24, 1, 10>> \o ScanRecord(66) \o ScanRecord(35) \o <<0, 0, 24, 0>>
    /\ last.result
    /\ device_state[SensorA].occupancy = B(FALSE)
    /\ "state" \in DOMAIN device_state[SensorA]
    /\ fast_stats.fast_path_hits = 1


----------------------------------------------------------------------------
(* C32: the presence a Tuya frame carries *)

\* DP 1 as a one-byte enum, DP 104 as a one-byte bool
IsEnumState(dp) == dp[1] = 1 /\ dp[2] = 4 /\ dp[3] = 0 /\ dp[4] = 1
IsBoolPresence(dp) == dp[1] = 104 /\ dp[2] = 1 /\ dp[3] = 0 /\ dp[4] = 1
\* DP 1 as a bool, which some models send; without its data byte the decoder's
\* dp_data[0] is an IndexError
IsBoolState(dp) == dp[1] = 1 /\ dp[2] = 1
IsEmptyBoolState(dp) == IsBoolState(dp) /\ Len(dp) = 4

Named(dp) == IsEnumState(dp) \/ IsBoolPresence(dp)
Carries(dp) == Named(dp) \/ (IsBoolState(dp) /\ ~IsEmptyBoolState(dp))

Last(q) == q[Len(q)]

TuyaOf(report) ==
    /\ Called("process_frame")
    /\ last'.cluster = CLUSTER_TUYA
    /\ last'.message = report.message

\* the call wrote presence, occupancy and state as the record says
PresenceWritten(dp) ==
    /\ last'.result
    /\ device_state'[SensorA].presence = B(dp[5] # 0)
    /\ device_state'[SensorA].occupancy = B(dp[5] # 0)
    /\ device_state'[SensorA].state = B(dp[5] # 0)
    /\ \A k \in DOMAIN device_state[SensorA] \ {"presence", "occupancy", "state"} :
          device_state'[SensorA][k] = device_state[SensorA][k]

NothingWritten ==
    /\ ~last'.result
    /\ device_state' = device_state
    /\ last_seen' = last_seen
    /\ cache_dirty' = cache_dirty

----------------------------------------------------------------------------
(* C33, C34: aggressive reporting *)

ReportingCalled == Called("configure_zone_device_reporting")

\* the listed devices the call configures: in the registry, not an end
\* device, with a zigpy device, and listed once
Configurable ==
    {i \in 1..Len(last'.device_ieees) :
        LET device == last'.device_ieees[i]
        IN  /\ device.ieee \in devices
            /\ device.zigpy
            /\ device.node_desc # "end_device"
            /\ \A j \in 1..Len(last'.device_ieees) :
                  last'.device_ieees[j].ieee = device.ieee => j = i}

\* the radio calls the call made to the device, in order
SentTo(device) ==
    LET to(x) == x.ieee = device.ieee
        tagged == SelectSeq(last'.sent, to)
    IN  [p \in 1..Len(tagged) |-> tagged[p].call]

\* the (endpoint, cluster) pairs of the device among the clusters, endpoint 0
\* left out
Present(device, clusters) ==
    UNION { {<<device.endpoints[e].ep_id, c>> :
                c \in clusters \cap (device.endpoints[e].in_clusters
                                       \cup device.endpoints[e].out_clusters)} :
            e \in {x \in 1..Len(device.endpoints) : device.endpoints[x].ep_id # 0} }

TelemetryIds == {2820, 2821}
FunctionalIds == {6, 8, 768, 0, 3}

Succeeds(device, call) ==
    /\ call[1] = "configure_reporting"
    /\ call[3] \notin device.bind_raises \cup device.configure_raises

\* C33: for each device the telemetry clusters are tried first and the first
\* one bound and configured ends the device's configuration; the functional
\* clusters are touched only when the device has no telemetry cluster, and
\* then every functional cluster present is bound and configured with
\* min_interval 1 and max_interval 5.
C33_TelemetryFirst ==
    [][ ReportingCalled
        => \A i \in Configurable :
              LET device == last'.device_ieees[i]
                  sent == SentTo(device)
              IN  /\ \A p, q \in 1..Len(sent) :
                         (sent[p][3] \in TelemetryIds /\ sent[q][3] \in FunctionalIds)
                         => p < q
                  /\ \A p \in 1..Len(sent) :
                         (sent[p][3] \in TelemetryIds /\ Succeeds(device, sent[p]))
                         => p = Len(sent)
                  /\ (\E p \in 1..Len(sent) : sent[p][3] \in FunctionalIds)
                         => Present(device, TelemetryIds) = {}
                  /\ Present(device, TelemetryIds) = {}
                         => \A pair \in Present(device, FunctionalIds) :
                               /\ \E p \in 1..Len(sent) :
                                     sent[p] = <<"bind", pair[1], pair[2]>>
                               /\ pair[2] \notin device.bind_raises
                                     => \E p \in 1..Len(sent) :
                                           /\ sent[p][1] = "configure_reporting"
                                           /\ sent[p][2] = pair[1]
                                           /\ sent[p][3] = pair[2]
                                           /\ sent[p][5] = 1 /\ sent[p][6] = 5
      ]_vars


\* the listed devices found in the registry, and the end devices among them
Found == {i \in 1..Len(last'.device_ieees) : last'.device_ieees[i].ieee \in devices}

EndDevices ==
    {i \in Found : /\ last'.device_ieees[i].zigpy
                   /\ last'.device_ieees[i].node_desc = "end_device"}

\* C34: configure_zone_device_reporting sends no bind and no
\* configure_reporting to a device whose node descriptor marks it an end
\* device, and counts it as skipped; an error on one device does not stop the
\* devices after it from being processed; and configured + skipped + failed
\* is the number of listed devices found in the registry.
C34_ReportingCounts ==
    [][ ReportingCalled
        => /\ \A i \in EndDevices :
                 \A p \in 1..Len(last'.sent) :
                    last'.sent[p].ieee # last'.device_ieees[i].ieee
           /\ last'.result.skipped = Cardinality(EndDevices)
           /\ last'.result.configured + last'.result.skipped + last'.result.failed
                 = Cardinality(Found)
           /\ \A i \in Configurable :
                 Present(last'.device_ieees[i], TelemetryIds \cup FunctionalIds) # {}
                 => SentTo(last'.device_ieees[i]) # <<>>
      ]_vars

\* a device without zigpy device failed, the battery sensor after it was
\* skipped and the plug after that was configured on its telemetry cluster
C34_Witness ==
    /\ last.op = "configure_zone_device_reporting"
    /\ Len(last.device_ieees) = 3
    /\ last.device_ieees[1].ieee = Stub /\ ~last.device_ieees[1].zigpy
    /\ last.device_ieees[2].ieee = SensorA
    /\ last.device_ieees[3].ieee = Plug
    /\ last.result = [configured |-> 1, skipped |-> 1, failed |-> 1]
    /\ last.sent = << [ieee |-> Plug, call |-> <<"bind", 1, 2820>>],
                      [ieee |-> Plug,
                       call |-> <<"configure_reporting", 1, 2820, 1291, 1, 5, 0>>] >>

----------------------------------------------------------------------------
(* C35: the source index after create, update and delete *)

\* The sources of the stored rules
StoredSources == {rules[i].source_ieee : i \in 1..Len(rules)}

\* The positions of the stored rules of a source, and the k-th of them
PositionsOf(source_ieee) == {i \in 1..Len(rules) : rules[i].source_ieee = source_ieee}

NthOf(source_ieee, k) ==
    CHOOSE i \in PositionsOf(source_ieee) :
        Cardinality({j \in PositionsOf(source_ieee) : j < i}) = k - 1

----------------------------------------------------------------------------
(* C36: a refused update *)

\* C36: an update_rule call that returns success=false leaves the stored
\* rules, the source index and the persisted file as they were.
C36_AllOrNothing ==
    [][(Called("update_rule") /\ ~last'.result.success /\ ~last'.result.raised)
          => UNCHANGED <<rules, source_index, file>>]_vars


----------------------------------------------------------------------------
(* C37: open and closed at once *)

\* C37: after any sequence of lift reports and open, close and set_position
\* commands the state of the cover never has is_open and is_closed both true.
C37_NotOpenAndClosed ==
    ~(/\ Get(device_state[Cover], "is_open", None) = B(TRUE)
      /\ Get(device_state[Cover], "is_closed", None) = B(TRUE))


----------------------------------------------------------------------------
(* C38: the scaling divisors *)

\* C38: after any sequence of attribute reports and configure() reads, also
\* ones that deliver 0 or nothing for a multiplier or a divisor, no scaling
\* divisor of the Electrical Measurement or the Metering handler is 0, and no
\* report of a power, voltage, current or energy ended in a division by zero.
C38_DivisorsNotZero ==
    /\ handlers[Plug].power_divisor # 0
    /\ handlers[Plug].voltage_divisor # 0
    /\ handlers[Plug].current_divisor # 0
    /\ handlers[Plug].divisor # 0
    /\ last.op \in {"measurement_attribute_updated", "metering_attribute_updated"}
       => ~last.raised

\* A current was scaled after a read had delivered 0 for the voltage and the
\* current divisor and nothing for the power divisor
C38_Witness ==
    /\ last.op = "measurement_attribute_updated"
    /\ last.attrid = ATTR_RMS_CURRENT /\ last.value = I(455)
    /\ "current_1" \in DOMAIN device_state[Plug]
    /\ handlers[Plug].current_divisor = 1
    /\ handlers[Plug].power_multiplier = 2


----------------------------------------------------------------------------
(* C39: the InterPAN mode is left *)

\* every set-channel sub-command is followed by a clear sub-command
ClearedAfterSet(sent) ==
    \A i \in 1..Len(sent) :
       sent[i] = INTERPAN_SET_CHANNEL
          => \E j \in (i + 1)..Len(sent) : sent[j] = INTERPAN_CLEAR

ZnpReturned == last' # last /\ last'.op \in ZnpOperations

\* C39: when a ZNP scan, identify or factory_reset returns, or is left by an
\* exception, _interpan_lock is False, and when the operation had put the
\* radio into InterPAN mode it has called the clear sub-command after its
\* last set-channel sub-command, also when the channel-set or the clear
\* command itself failed.
C39_InterpanCleared ==
    [][ZnpReturned
          => /\ ~handlers'[Touchlink].interpan_lock
             /\ last'.entered => ClearedAfterSet(last'.sent)]_vars

\* A factory reset set the channel, failed on the channel-set command of the
\* next channel and on the clear command, and returned with the lock reset
C39_Witness ==
    /\ last.op = "factory_reset"
    /\ last.sent = <<INTERPAN_SET_CHANNEL, INTERPAN_REGISTER, INTERPAN_SET_CHANNEL,
                     INTERPAN_CLEAR>>
    /\ last.entered
    /\ ~last.result.success /\ ~last.result.raised
    /\ last.clear = "raises"
    /\ handlers[Touchlink].pc = "idle"
    /\ ~handlers[Touchlink].interpan_lock


----------------------------------------------------------------------------
(* C40: the reconnect loop of the Matter bridge *)

\* the reconnect loops that have not ended
ActiveReconnects ==
    {t \in 1..Len(handlers[Matter].task) :
        /\ handlers[Matter].task[t].kind = "reconnect"
        /\ handlers[Matter].task[t].pc # "done"}

\* at most one reconnect loop is active
OneReconnectLoop == Cardinality(ActiveReconnects) <= 1

\* a reconnect loop whose attempt succeeded has ended
EndsOnSuccess ==
    \A t \in 1..Len(handlers[Matter].task) :
       handlers[Matter].task[t].succeeded => handlers[Matter].task[t].pc = "done"

\* stop() has completed with no start() call in flight during it, and start()
\* was not called since: no reconnect loop is active and the bridge is not connected
QuietAfterStop ==
    handlers[Matter].stopped
       => ActiveReconnects = {} /\ ~handlers[Matter].connected

\* C40: under any interleaving of start(), stop(), connection loss, listener
\* termination and reconnect attempts at most one reconnect loop is active, a
\* reconnect loop ends as soon as one attempt succeeds, and once stop() has
\* completed no reconnect loop is running and the bridge stays disconnected
\* until start() is called again.
C40_OneReconnectLoop == OneReconnectLoop /\ EndsOnSuccess /\ QuietAfterStop


====
